---- MODULE Spec2Model ----
(***************************************************************************)
(* A model of the Mangle (Rust) compilation and evaluation core:           *)
(*   - MemStore (interpreter/src/lib.rs): stable / delta / next-delta      *)
(*     buckets with secondary indexes,                                     *)
(*   - stratification (analysis/src/stratification.rs),                    *)
(*   - the planner (analysis/src/planner.rs) and the interpreter           *)
(*     (interpreter/src/lib.rs) of physical operations,                    *)
(*   - the driver's execute loop (driver/src/lib.rs).                      *)
(***************************************************************************)
EXTENDS Integers, Sequences, FiniteSets, TLC

VARIABLES
    store,      \* the MemStore: stable, delta, next_delta, stable_indexes, delta_indexes
    last,       \* the last Store call and what it returned
    nops,       \* number of Store calls made so far (store specification only)
    prog,       \* the clauses of the unit (after compile: of the renamed unit)
    ord,        \* iteration order of the hash maps and sets keyed by predicate
    strat,      \* result of Program::stratify
    ir,         \* the lowered IR: rules, instruction count, interned names
    plans,      \* strata_plans of execute
    pc,         \* position of the driver inside execute
    si,         \* index of the stratum plan being executed
    oi,         \* index of the next op inside the current plan list
    changes,    \* the loop's `changes` counter
    run,        \* 1 during the first execute, 2 during the second
    inserted,   \* number of successful inserts of the current execute
    derived,    \* facts inserted by the strata executed so far (relation, tuple)
    overflow,   \* how the build treats i64 overflow: "wrap" or "panic"
    pending,    \* tuples for which insert returned true since the last merge_deltas
    unit,       \* the parsed unit: declarations and clauses
    rewritten,  \* the unit returned by the last rewrite_unit
    extended,   \* the unit with one more declaration (type check specification)
    checks      \* the results of the TypeChecker::check calls made so far

vars == <<store, last, nops, prog, ord, strat, ir, plans, pc, si, oi, changes, run,
          inserted, derived, overflow, pending, unit, rewritten, extended, checks>>

unitVars == <<unit, rewritten>>

typeVars == <<extended, checks>>

(***************************************************************************)
(* Bounds of the model.                                                    *)
(***************************************************************************)
MaxVal == 2         \* values stored in the initial relations are 1..MaxVal
MaxOps == 5         \* Store calls per behaviour of the store specification
MaxFacts == 2       \* facts of the extensional relation in the initial store
IntBits == 3        \* width of the modelled i64 (two's complement)

Vals == 1..MaxVal

(***************************************************************************)
(* Finite maps (HashMap) as functions with a growing domain.               *)
(***************************************************************************)
EmptyMap == [x \in {} |-> 0]

Put(m, k, v) == [x \in (DOMAIN m) \cup {k} |-> IF x = k THEN v ELSE m[x]]

GetOr(m, k, d) == IF k \in DOMAIN m THEN m[k] ELSE d

Contains(table, tuple) == \E i \in 1..Len(table) : table[i] = tuple

SeqToSet(s) == {s[i] : i \in 1..Len(s)}

(***************************************************************************)
(* MemStore                                                                *)
(***************************************************************************)
MemStore_new ==
    [stable |-> EmptyMap, delta |-> EmptyMap, next_delta |-> EmptyMap,
     stable_indexes |-> EmptyMap, delta_indexes |-> EmptyMap]

\* indexes.entry((relation, col_idx)).or_default().entry(val).or_default().push(row_idx)
IndexPush(indexes, relation, col_idx, val, row_idx) ==
    LET k == <<relation, col_idx>>
        m == GetOr(indexes, k, EmptyMap)
    IN  Put(indexes, k, Put(m, val, Append(GetOr(m, val, <<>>), row_idx)))

\* the loop over the columns of one row: `for (col_idx, val) in tuple.iter().enumerate()`
RECURSIVE IndexRow(_, _, _, _, _)
IndexRow(indexes, relation, tuple, row_idx, c) ==
    IF c > Len(tuple) THEN indexes
    ELSE IndexRow(IndexPush(indexes, relation, c - 1, tuple[c], row_idx),
                  relation, tuple, row_idx, c + 1)

\* the loop over the rows of one table, the first of them getting row index `base`
RECURSIVE IndexRows(_, _, _, _, _)
IndexRows(indexes, relation, tuples, base, i) ==
    IF i > Len(tuples) THEN indexes
    ELSE IndexRows(IndexRow(indexes, relation, tuples[i], base + i - 1, 1),
                   relation, tuples, base, i + 1)

create_relation(st, relation) ==
    [st EXCEPT !.stable = Put(@, relation, GetOr(@, relation, <<>>))]

add_fact(st, relation, args) ==
    LET table == GetOr(st.stable, relation, <<>>)
    IN  IF Contains(table, args)
        THEN [st EXCEPT !.stable = Put(@, relation, table)]
        ELSE [st EXCEPT !.stable = Put(@, relation, Append(table, args)),
                        !.stable_indexes = IndexRow(@, relation, args, Len(table), 1)]

get_facts(st, relation) ==
    GetOr(st.stable, relation, <<>>) \o GetOr(st.delta, relation, <<>>)

scan(st, relation) ==
    GetOr(st.stable, relation, <<>>) \o GetOr(st.delta, relation, <<>>)

\* the Result of Store::scan: `Ok(Box::new(s.chain(d)))` on every path
scan_result(st, relation) == [ok |-> TRUE, tuples |-> scan(st, relation)]

scan_delta(st, relation) == GetOr(st.delta, relation, <<>>)

scan_next_delta(st, relation) == GetOr(st.next_delta, relation, <<>>)

\* rows of `table` named by the index entry of (relation, col_idx, key)
IndexedRows(indexes, tables, relation, col_idx, key) ==
    IF /\ <<relation, col_idx>> \in DOMAIN indexes
       /\ key \in DOMAIN indexes[<<relation, col_idx>>]
       /\ relation \in DOMAIN tables
    THEN LET rows == indexes[<<relation, col_idx>>][key]
         IN  [i \in 1..Len(rows) |-> tables[relation][rows[i] + 1]]
    ELSE <<>>

scan_index(st, relation, col_idx, key) ==
    IndexedRows(st.stable_indexes, st.stable, relation, col_idx, key)
        \o IndexedRows(st.delta_indexes, st.delta, relation, col_idx, key)

scan_delta_index(st, relation, col_idx, key) ==
    IndexedRows(st.delta_indexes, st.delta, relation, col_idx, key)

\* the duplicate check with the stable bucket forgotten
InsertSeenNoStable(st, relation, tuple) ==
    \/ (relation \in DOMAIN st.delta /\ Contains(st.delta[relation], tuple))
    \/ (relation \in DOMAIN st.next_delta /\ Contains(st.next_delta[relation], tuple))

\* the duplicate check with the delta bucket forgotten
InsertSeenNoDelta(st, relation, tuple) ==
    \/ (relation \in DOMAIN st.stable /\ Contains(st.stable[relation], tuple))
    \/ (relation \in DOMAIN st.next_delta /\ Contains(st.next_delta[relation], tuple))

\* the duplicate check of insert: stable, delta, or next_delta holds the tuple
InsertSeen(st, relation, tuple) ==
    \/ (relation \in DOMAIN st.stable /\ Contains(st.stable[relation], tuple))
    \/ (relation \in DOMAIN st.delta /\ Contains(st.delta[relation], tuple))
    \/ (relation \in DOMAIN st.next_delta /\ Contains(st.next_delta[relation], tuple))

\* an insert that pushes the new tuple to the current delta
insertIntoDelta(st, relation, tuple) ==
    IF InsertSeen(st, relation, tuple)
    THEN [st |-> st, ok |-> FALSE]
    ELSE [st |-> [st EXCEPT !.delta =
                      Put(@, relation, Append(GetOr(@, relation, <<>>), tuple))],
          ok |-> TRUE]

\* insert returns the new store and the bool
insert(st, relation, tuple) ==
    IF InsertSeen(st, relation, tuple)
    THEN [st |-> st, ok |-> FALSE]
    ELSE [st |-> [st EXCEPT !.next_delta =
                      Put(@, relation, Append(GetOr(@, relation, <<>>), tuple))],
          ok |-> TRUE]

\* a merge that drains delta without pushing its tuples to stable
MoveDeltaDropped(st, rels) == st

\* step 1 of merge_deltas for the relations of `rels` (self.delta.drain())
RECURSIVE MoveDeltaToStable(_, _)
MoveDeltaToStable(st, rels) ==
    IF rels = {} THEN st
    ELSE LET rel_name == CHOOSE r \in rels : TRUE
             table == GetOr(st.stable, rel_name, <<>>)
             tuples == st.delta[rel_name]
         IN  MoveDeltaToStable(
                 [st EXCEPT !.stable = Put(@, rel_name, table \o tuples),
                            !.stable_indexes =
                                IndexRows(@, rel_name, tuples, Len(table), 1)],
                 rels \ {rel_name})

\* a merge that builds no index for the new delta
BuildNoDeltaIndex(indexes, d, rels) == indexes

\* step 2 of merge_deltas: the index of the new delta
RECURSIVE BuildDeltaIndex(_, _, _)
BuildDeltaIndex(indexes, d, rels) ==
    IF rels = {} THEN indexes
    ELSE LET rel_name == CHOOSE r \in rels : TRUE
         IN  BuildDeltaIndex(IndexRows(indexes, rel_name, d[rel_name], 0, 1),
                             d, rels \ {rel_name})

\* a merge that forgets to take the tuples out of next-delta
merge_deltas_keep_next(st) ==
    LET moved == MoveDeltaToStable(st, DOMAIN st.delta)
    IN  [moved EXCEPT !.delta = st.next_delta,
                      !.delta_indexes =
                          BuildDeltaIndex(EmptyMap, st.next_delta, DOMAIN st.next_delta)]

merge_deltas(st) ==
    LET moved == MoveDeltaToStable(st, DOMAIN st.delta)
    IN  [moved EXCEPT !.delta = st.next_delta,
                      !.next_delta = EmptyMap,
                      !.delta_indexes =
                          BuildDeltaIndex(EmptyMap, st.next_delta, DOMAIN st.next_delta)]

(***************************************************************************)
(* The syntax of a unit (ast::Clause, ast::Term, ast::BaseTerm,            *)
(* ast::TransformStmt).  A transform statement without variable (`do`) has *)
(* var = NoVar.                                                            *)
(***************************************************************************)
NoVar == "<none>"

Var(v) == [k |-> "var", name |-> v]

Num(n) == [k |-> "num", n |-> n]

ApplyFn(f, args) == [k |-> "app", fn |-> f, args |-> args]

Atom(sym, args) == [sym |-> sym, args |-> args]

PosAtom(sym, args) == [k |-> "atom", atom |-> Atom(sym, args)]

NegAtom(sym, args) == [k |-> "neg", atom |-> Atom(sym, args)]

Eq(l, r) == [k |-> "eq", l |-> l, r |-> r]

Let(v, app) == [var |-> v, app |-> app]

Do(app) == [var |-> NoVar, app |-> app]

Clause(head, premises, transform) ==
    [head |-> head, premises |-> premises, transform |-> transform]

Str(s) == [k |-> "str", s |-> s]

NameConst(n) == [k |-> "name", name |-> n]

None == [some |-> FALSE]

Some(v) == [some |-> TRUE, v |-> v]

Decl(atom, descr, bounds) ==
    [atom |-> atom, descr |-> descr, bounds |-> bounds, constraints |-> None]

Unit(decls, clauses) == [decls |-> decls, clauses |-> clauses]

NoUnit == Unit(<<>>, <<>>)

\* the elements of the set S in the iteration order o (a sequence without repetition)
RECURSIVE Ordered(_, _)
Ordered(S, o) ==
    IF o = <<>> THEN <<>>
    ELSE (IF Head(o) \in S THEN <<Head(o)>> ELSE <<>>) \o Ordered(S, Tail(o))

(***************************************************************************)
(* Program assembly in compile (driver/src/lib.rs) and Program::add_clause *)
(***************************************************************************)
\* rules: head predicate -> the clauses added for it, in order
RECURSIVE add_clauses(_, _, _)
add_clauses(rules, clauses, i) ==
    IF i > Len(clauses) THEN rules
    ELSE LET sym == clauses[i].head.sym
         IN  add_clauses(Put(rules, sym, Append(GetOr(rules, sym, <<>>), clauses[i])),
                         clauses, i + 1)

idb_preds(clauses) == {clauses[i].head.sym : i \in 1..Len(clauses)}

all_preds(clauses) ==
    idb_preds(clauses) \cup
    {clauses[i].premises[j].atom.sym :
        <<i, j>> \in {x \in (1..Len(clauses)) \X (1..8) :
                        /\ x[2] <= Len(clauses[x[1]].premises)
                        /\ clauses[x[1]].premises[x[2]].k \in {"atom", "neg"}}}

Program(clauses) ==
    [rules |-> add_clauses(EmptyMap, clauses, 1),
     ext_preds |-> all_preds(clauses) \ idb_preds(clauses)]

(***************************************************************************)
(* Stratification (analysis/src/stratification.rs)                         *)
(***************************************************************************)
init_node(dep, src) == Put(dep, src, GetOr(dep, src, EmptyMap))

\* the label of the last addition wins
add_edge_last_wins(dep, src, dest, negated) ==
    Put(dep, src, Put(GetOr(dep, src, EmptyMap), dest, negated))

add_edge(dep, src, dest, negated) ==
    LET edges == GetOr(dep, src, EmptyMap)
    IN  IF negated
        THEN Put(dep, src, Put(edges, dest, TRUE))
        ELSE IF dest \notin DOMAIN edges \/ ~edges[dest]
             THEN Put(dep, src, Put(edges, dest, FALSE))
             ELSE Put(dep, src, edges)

\* the negativity test of make_dep_graph for a positive premise of `clause`
DoTransformClause(clause) ==
    ~(clause.transform = <<>> \/ clause.transform[1].var # NoVar)

\* the loop over the premises of one clause
RECURSIVE DepPremises(_, _, _, _, _)
DepPremises(dep, program, s, clause, j) ==
    IF j > Len(clause.premises) THEN dep
    ELSE LET premise == clause.premises[j]
             next ==
                 IF premise.k = "atom"
                 THEN IF premise.atom.sym \notin program.ext_preds
                      THEN add_edge(dep, s, premise.atom.sym, DoTransformClause(clause))
                      ELSE dep
                 ELSE IF premise.k = "neg"
                 THEN IF premise.atom.sym \notin program.ext_preds
                      THEN add_edge(dep, s, premise.atom.sym, TRUE)
                      ELSE dep
                 ELSE dep
         IN  DepPremises(next, program, s, clause, j + 1)

\* the loop over the clauses of one head predicate
RECURSIVE DepClauses(_, _, _, _, _)
DepClauses(dep, program, s, rule, i) ==
    IF i > Len(rule) THEN dep
    ELSE DepClauses(DepPremises(dep, program, s, rule[i], 1), program, s, rule, i + 1)

\* the loop over program.rules, `heads` being its keys in iteration order
RECURSIVE DepHeads(_, _, _)
DepHeads(dep, program, heads) ==
    IF heads = <<>> THEN dep
    ELSE LET s == Head(heads)
         IN  DepHeads(DepClauses(init_node(dep, s), program, s, program.rules[s], 1),
                      program, Tail(heads))

make_dep_graph(program, o) ==
    DepHeads(EmptyMap, program, Ordered(DOMAIN program.rules, o))

\* the loop over the edges of one source node in transpose
RECURSIVE TransposeEdges(_, _, _, _)
TransposeEdges(rev, dep, src, dests) ==
    IF dests = <<>> THEN rev
    ELSE LET dest == Head(dests)
         IN  TransposeEdges(add_edge(init_node(rev, dest), dest, src, dep[src][dest]),
                            dep, src, Tail(dests))

RECURSIVE TransposeNodes(_, _, _, _)
TransposeNodes(rev, dep, srcs, o) ==
    IF srcs = <<>> THEN rev
    ELSE TransposeNodes(
             TransposeEdges(rev, dep, Head(srcs), Ordered(DOMAIN dep[Head(srcs)], o)),
             dep, Tail(srcs), o)

transpose(dep, o) == TransposeNodes(EmptyMap, dep, Ordered(DOMAIN dep, o), o)

\* the keys of graph[node] in iteration order, nothing when the node has no entry
Neighbors(graph, node, o) ==
    IF node \in DOMAIN graph THEN Ordered(DOMAIN graph[node], o) ELSE <<>>

\* first pass of sccs: depth-first search pushing nodes in postorder;
\* z = [s |-> postorder stack, seen |-> visited nodes]
RECURSIVE visit(_, _, _, _)
RECURSIVE visit_all(_, _, _, _)
visit(node, graph, z, o) ==
    IF node \in z.seen THEN z
    ELSE LET z1 == visit_all(Neighbors(graph, node, o), graph,
                             [z EXCEPT !.seen = @ \cup {node}], o)
         IN  [z1 EXCEPT !.s = Append(@, node)]

visit_all(nodes, graph, z, o) ==
    IF nodes = <<>> THEN z
    ELSE visit_all(Tail(nodes), graph, visit(Head(nodes), graph, z, o), o)

\* second pass of sccs: depth-first search on the transposed graph;
\* z = [scc |-> the component being collected, seen |-> visited nodes]
RECURSIVE rvisit(_, _, _, _)
RECURSIVE rvisit_all(_, _, _, _)
rvisit(node, rev, z, o) ==
    IF node \in z.seen THEN z
    ELSE rvisit_all(Neighbors(rev, node, o), rev,
                    [scc |-> z.scc \cup {node}, seen |-> z.seen \cup {node}], o)

rvisit_all(nodes, rev, z, o) ==
    IF nodes = <<>> THEN z
    ELSE rvisit_all(Tail(nodes), rev, rvisit(Head(nodes), rev, z, o), o)

\* `while let Some(top) = s.pop()`
RECURSIVE PopComponents(_, _, _, _, _)
PopComponents(s, rev, seen, result, o) ==
    IF s = <<>> THEN result
    ELSE LET top == s[Len(s)]
             rest == SubSeq(s, 1, Len(s) - 1)
         IN  IF top \in seen THEN PopComponents(rest, rev, seen, result, o)
             ELSE LET z == rvisit(top, rev, [scc |-> {}, seen |-> seen], o)
                  IN  PopComponents(rest, rev, z.seen,
                                    IF z.scc # {} THEN Append(result, z.scc) ELSE result,
                                    o)

sccs(dep, o) ==
    LET z == visit_all(Ordered(DOMAIN dep, o), dep, [s |-> <<>>, seen |-> {}], o)
    IN  PopComponents(z.s, transpose(dep, o), {}, <<>>, o)

\* visit_stratum of sort_result (stratum indexes count from 0);
\* z = [seen |-> visited indexes, sorted_indices |-> postorder]
RECURSIVE visit_stratum(_, _, _, _, _, _)
RECURSIVE visit_stratum_deps(_, _, _, _, _, _)
RECURSIVE visit_stratum_syms(_, _, _, _, _, _)
visit_stratum(index, dep, strata, pred_to_stratum_map, z, o) ==
    IF index \in z.seen THEN z
    ELSE LET z0 == [z EXCEPT !.seen = @ \cup {index}]
             z1 == IF index < Len(strata)
                   THEN visit_stratum_syms(Ordered(strata[index + 1], o), dep, strata,
                                           pred_to_stratum_map, z0, o)
                   ELSE z0
         IN  [z1 EXCEPT !.sorted_indices = Append(@, index)]

visit_stratum_syms(syms, dep, strata, pred_to_stratum_map, z, o) ==
    IF syms = <<>> THEN z
    ELSE visit_stratum_syms(
             Tail(syms), dep, strata, pred_to_stratum_map,
             visit_stratum_deps(Neighbors(dep, Head(syms), o), dep, strata,
                                pred_to_stratum_map, z, o),
             o)

visit_stratum_deps(ds, dep, strata, pred_to_stratum_map, z, o) ==
    IF ds = <<>> THEN z
    ELSE visit_stratum_deps(
             Tail(ds), dep, strata, pred_to_stratum_map,
             IF Head(ds) \in DOMAIN pred_to_stratum_map
             THEN visit_stratum(pred_to_stratum_map[Head(ds)], dep, strata,
                                pred_to_stratum_map, z, o)
             ELSE z,
             o)

\* the inner loop of apply_permutation_cycle_rotate: rotate the cycle through i;
\* z = [arr, visited, current_val, current_idx] (indexes count from 0)
RECURSIVE RotateCycle(_, _, _)
RotateCycle(z, permutation, i) ==
    LET target_idx == permutation[z.current_idx + 1]
        z1 == [arr |-> [z.arr EXCEPT ![target_idx + 1] = z.current_val],
               visited |-> z.visited \cup {z.current_idx},
               current_val |-> z.arr[target_idx + 1],
               current_idx |-> target_idx]
    IN  IF target_idx = i THEN z1 ELSE RotateCycle(z1, permutation, i)

\* the outer loop `for i in 0..n`; y = [arr, visited]
RECURSIVE RotateFrom(_, _, _)
RotateFrom(y, permutation, i) ==
    IF i >= Len(y.arr) THEN y
    ELSE IF i \in y.visited THEN RotateFrom(y, permutation, i + 1)
    ELSE IF permutation[i + 1] = i
         THEN RotateFrom([y EXCEPT !.visited = @ \cup {i}], permutation, i + 1)
    ELSE LET z == RotateCycle([arr |-> [y.arr EXCEPT ![i + 1] = {}],
                               visited |-> y.visited,
                               current_val |-> y.arr[i + 1],
                               current_idx |-> i],
                              permutation, i)
         IN  RotateFrom([arr |-> z.arr, visited |-> z.visited], permutation, i + 1)

\* every moved element is taken and none is put back
apply_permutation_take_only(arr, permutation) ==
    [i \in 1..Len(arr) |-> IF permutation[i] = i - 1 THEN arr[i] ELSE {}]

apply_permutation_cycle_rotate(arr, permutation) ==
    IF Len(arr) = 0 THEN arr
    ELSE RotateFrom([arr |-> arr, visited |-> {}], permutation, 0).arr

\* `for i in 0..num_strata { visit_stratum(i, ...) }`
RECURSIVE SortVisitAll(_, _, _, _, _, _)
SortVisitAll(i, dep, strata, pred_to_stratum_map, z, o) ==
    IF i >= Len(strata) THEN z
    ELSE SortVisitAll(i + 1, dep, strata, pred_to_stratum_map,
                      visit_stratum(i, dep, strata, pred_to_stratum_map, z, o), o)

\* permutation[old_idx] = new_idx for sorted_indices[new_idx] = old_idx
PermutationOf(sorted_indices) ==
    [old \in 1..Len(sorted_indices) |->
        (CHOOSE new \in 1..Len(sorted_indices) : sorted_indices[new] = old - 1) - 1]

\* the strata left in the order of sccs
sort_result_unsorted(dep, strata, pred_to_stratum_map, o) == strata

\* sort_result returns the reordered strata
sort_result(dep, strata, pred_to_stratum_map, o) ==
    LET z == SortVisitAll(0, dep, strata, pred_to_stratum_map,
                          [seen |-> {}, sorted_indices |-> <<>>], o)
    IN  apply_permutation_cycle_rotate(strata, PermutationOf(z.sorted_indices))

\* a negated edge of a member of stratum c whose destination is mapped to stratum i
NegativeInside(dep, c, pred_to_stratum, i) ==
    \E sym \in c :
        /\ sym \in DOMAIN dep
        /\ \E dest \in DOMAIN dep[sym] :
              /\ dep[sym][dest]
              /\ dest \in DOMAIN pred_to_stratum
              /\ pred_to_stratum[dest] = i

\* the loop `for (i, c) in strata.iter().enumerate()` of stratify (i counts from 0):
\* returns [ok, pred_to_stratum]
RECURSIVE CheckStrata(_, _, _, _)
CheckStrata(dep, strata, pred_to_stratum, i) ==
    IF i >= Len(strata) THEN [ok |-> TRUE, pred_to_stratum |-> pred_to_stratum]
    ELSE LET c == strata[i + 1]
             m == [x \in (DOMAIN pred_to_stratum) \cup c |->
                      IF x \in c THEN i ELSE pred_to_stratum[x]]
         IN  IF NegativeInside(dep, c, m, i)
             THEN [ok |-> FALSE, pred_to_stratum |-> m]
             ELSE CheckStrata(dep, strata, m, i + 1)

StratifyError == "program cannot be stratified"

stratify(program, o) ==
    LET dep == make_dep_graph(program, o)
        strata == sccs(dep, o)
        chk == CheckStrata(dep, strata, EmptyMap, 0)
    IN  IF ~chk.ok
        THEN [ok |-> FALSE, err |-> StratifyError]
        ELSE [ok |-> TRUE, strata |-> sort_result(dep, strata, chk.pred_to_stratum, o)]

NoStratum == -1

\* StratifiedProgram::pred_to_index: position of the first stratum holding sym
pred_to_index(strata, sym) ==
    IF \E i \in 1..Len(strata) : sym \in strata[i]
    THEN (CHOOSE i \in 1..Len(strata) :
              sym \in strata[i] /\ \A j \in 1..(i - 1) : sym \notin strata[j]) - 1
    ELSE NoStratum

(***************************************************************************)
(* The store specification: a client calling create_relation, insert,      *)
(* merge_deltas and scan on a new MemStore, in any order.                  *)
(***************************************************************************)
StoreRels == {"p", "q"}

\* the column values and the (binary) tuples the client inserts
StoreVals == {1, 2}

StoreTuples == {<<a, b>> : a \in StoreVals, b \in StoreVals}

NoCall == [op |-> "none"]

execVars == <<prog, ord, strat, ir, plans, pc, si, oi, changes, run, inserted, derived,
              overflow>>

StoreInit ==
    /\ store = MemStore_new
    /\ last = NoCall
    /\ nops = 0
    /\ pending = {}
    /\ prog = <<>>
    /\ ord = <<>>
    /\ strat = [ok |-> TRUE, strata |-> <<>>]
    /\ pc = "store"
    /\ si = 0
    /\ oi = 0
    /\ changes = 0
    /\ run = 0
    /\ inserted = 0
    /\ derived = {}
    /\ overflow = "wrap"
    /\ ir = [rules |-> <<>>, n |-> 0, names |-> <<>>]
    /\ plans = <<>>
    /\ unit = NoUnit
    /\ rewritten = NoUnit
    /\ extended = NoUnit /\ checks = <<>>

CreateRelation(r) ==
    /\ nops < MaxOps
    /\ store' = create_relation(store, r)
    /\ last' = [op |-> "create_relation", relation |-> r]
    /\ nops' = nops + 1
    /\ UNCHANGED <<pending, execVars, unitVars, typeVars>>

Insert(r, t) ==
    /\ nops < MaxOps
    /\ LET res == insert(store, r, t)
       IN  /\ store' = res.st
           /\ last' = [op |-> "insert", relation |-> r, tuple |-> t, ret |-> res.ok]
           /\ pending' = IF res.ok THEN pending \cup {<<r, t>>} ELSE pending
    /\ nops' = nops + 1
    /\ UNCHANGED <<execVars, unitVars, typeVars>>

MergeDeltas ==
    /\ nops < MaxOps
    /\ store' = merge_deltas(store)
    /\ last' = [op |-> "merge_deltas"]
    /\ pending' = {}
    /\ nops' = nops + 1
    /\ UNCHANGED <<execVars, unitVars, typeVars>>

Scan(r) ==
    /\ nops < MaxOps
    /\ last' = [op |-> "scan", relation |-> r, ok |-> scan_result(store, r).ok,
                 ret |-> scan_result(store, r).tuples]
    /\ nops' = nops + 1
    /\ UNCHANGED <<store, pending, execVars, unitVars, typeVars>>

StoreNext ==
    \/ \E r \in StoreRels : CreateRelation(r)
    \/ \E r \in StoreRels, t \in StoreTuples : Insert(r, t)
    \/ MergeDeltas
    \/ \E r \in StoreRels : Scan(r)

StoreSpec == StoreInit /\ [][StoreNext]_vars

(***************************************************************************)
(* Claims about the store                                                  *)
(***************************************************************************)
Buckets(st, r) ==
    GetOr(st.stable, r, <<>>) \o GetOr(st.delta, r, <<>>) \o GetOr(st.next_delta, r, <<>>)

NoDuplicates(s) == \A i, j \in 1..Len(s) : s[i] = s[j] => i = j

\* C8: after any sequence of create_relation, insert and merge_deltas calls, no
\* tuple occurs more than once in the concatenation of the stable, delta and
\* next-delta buckets of a relation.
C8_GlobalDedup == \A r \in StoreRels : NoDuplicates(Buckets(store, r))

\* a tuple of the stable bucket was just refused while next-delta holds another
C8_Witness ==
    /\ last.op = "insert" /\ ~last.ret
    /\ last.tuple \in SeqToSet(GetOr(store.stable, last.relation, <<>>))
    /\ Len(scan_next_delta(store, last.relation)) > 0

IsInsertStep == nops' = nops + 1 /\ last'.op = "insert"

\* C9: insert(relation, tuple) returns true and appends the tuple to the
\* relation's next-delta bucket exactly when the tuple is in none of the three
\* buckets; otherwise it returns false and leaves every bucket unchanged.
C9_InsertContract ==
    [][IsInsertStep =>
        LET r == last'.relation
            t == last'.tuple
            absent == t \notin SeqToSet(Buckets(store, r))
        IN  /\ last'.ret = absent
            /\ store'.stable = store.stable
            /\ store'.delta = store.delta
            /\ IF absent
               THEN /\ scan_next_delta(store', r) = Append(scan_next_delta(store, r), t)
                    /\ \A o \in StoreRels \ {r} :
                          scan_next_delta(store', o) = scan_next_delta(store, o)
               ELSE store'.next_delta = store.next_delta]_vars

\* an insert was refused because the current delta holds the tuple
C9_Witness ==
    /\ last.op = "insert" /\ ~last.ret
    /\ last.tuple \in SeqToSet(scan_delta(store, last.relation))

\* C10: a tuple added by insert is returned neither by scan nor by scan_index of
\* its relation before the next merge_deltas call, whatever inserts and scans
\* happen in between.
C10_InsertInvisible ==
    \A e \in pending :
        /\ e[2] \notin SeqToSet(scan(store, e[1]))
        /\ \A c \in 1..Len(e[2]) :
              e[2] \notin SeqToSet(scan_index(store, e[1], c - 1, e[2][c]))

\* two tuples await the merge and a scan of a relation with visible tuples was made
C10_Witness ==
    /\ Cardinality(pending) >= 2
    /\ last.op = "scan" /\ Len(last.ret) > 0
    /\ \E e \in pending : e[1] = last.relation

IsMergeStep == nops' = nops + 1 /\ last'.op = "merge_deltas"

\* C11: merge_deltas appends every delta tuple to stable, makes the previous
\* next-delta the new delta (scan_delta afterwards returns what scan_next_delta
\* returned before) and leaves next-delta empty; the three buckets of every
\* relation together hold the same tuples before and after the call.
C11_MergeMovesBuckets ==
    [][IsMergeStep =>
        \A r \in StoreRels :
            /\ GetOr(store'.stable, r, <<>>)
                  = GetOr(store.stable, r, <<>>) \o scan_delta(store, r)
            /\ scan_delta(store', r) = scan_next_delta(store, r)
            /\ scan_next_delta(store', r) = <<>>
            /\ Buckets(store', r) = Buckets(store, r)]_vars

\* the fourth call is a merge that moved a delta tuple to stable and a
\* next-delta tuple to delta
C11_Witness ==
    /\ last.op = "merge_deltas" /\ nops = 4
    /\ \E r \in StoreRels :
          /\ GetOr(store.stable, r, <<>>) # <<>>
          /\ scan_delta(store, r) # <<>>

\* the relation was created by create_relation or add_fact, or has had an insert
KnownRelation(st, r) ==
    r \in (DOMAIN st.stable) \cup (DOMAIN st.delta) \cup (DOMAIN st.next_delta)

\* C13: scan(relation) returns an error when the relation is unknown to the
\* store: never created and never inserted into.
C13_ScanUnknownFails ==
    (last.op = "scan" /\ ~KnownRelation(store, last.relation)) => ~last.ok

(***************************************************************************)
(* The store with facts loaded by add_fact as well (the set-up call of the *)
(* tests), in any order with the calls of the Store trait.                 *)
(***************************************************************************)
AddFact(r, t) ==
    /\ nops < MaxOps
    /\ store' = add_fact(store, r, t)
    /\ last' = [op |-> "add_fact", relation |-> r, tuple |-> t]
    /\ nops' = nops + 1
    /\ UNCHANGED <<pending, execVars, unitVars, typeVars>>

StoreFactNext ==
    \/ \E r \in StoreRels, t \in StoreTuples : AddFact(r, t)
    \/ \E r \in StoreRels, t \in StoreTuples : Insert(r, t)
    \/ MergeDeltas

StoreFactSpec == StoreInit /\ [][StoreFactNext]_vars

\* how often the tuple occurs in the sequence
Occurrences(tuples, t) == Cardinality({i \in 1..Len(tuples) : tuples[i] = t})

\* C12: after any sequence of add_fact, insert and merge_deltas calls,
\* scan_index(relation, col_idx, key) returns exactly the tuples of
\* scan(relation) whose col_idx-th column is the key, each as often as scan does.
C12_IndexAgreesWithScan ==
    \A r \in StoreRels, c \in 0..2, k \in StoreVals :
        /\ SeqToSet(scan_index(store, r, c, k)) \subseteq StoreTuples
        /\ \A t \in StoreTuples :
              Occurrences(scan_index(store, r, c, k), t)
                  = IF c < Len(t) /\ t[c + 1] = k THEN Occurrences(scan(store, r), t) ELSE 0

\* a tuple that add_fact put into stable while delta held it is found twice
C12_Witness ==
    \E r \in StoreRels, t \in StoreTuples :
        /\ t \in SeqToSet(scan_delta(store, r))
        /\ Occurrences(scan_index(store, r, 1, t[2]), t) = 2
        /\ Len(scan_index(store, r, 1, t[2])) >= 3


(***************************************************************************)
(* The stratification specification: a unit with up to MaxClauses clauses  *)
(* over the predicates StratPreds is assembled into a Program and          *)
(* stratified.  Arguments play no part in stratification, so the atoms     *)
(* have none (as in `foo() :- !foo().` of test_stratification_cycle).      *)
(***************************************************************************)
MaxClauses == 3     \* clauses of a unit of the stratification specification

StratPreds == <<"p", "q", "r">>

GroupByStmt == Do(ApplyFn("fn:group_by", <<>>))

CountStmt == Let("N", ApplyFn("fn:count", <<>>))

\* the transform lists of the clause shapes
StratTransforms ==
    [pos |-> <<>>,
     do |-> <<GroupByStmt>>,
     letdo |-> <<CountStmt, GroupByStmt>>]

\* the clause shapes: a fact, or a rule with one premise
StratClauses ==
    {Clause(Atom(h, <<>>), <<>>, <<>>) : h \in SeqToSet(StratPreds)}
    \cup {Clause(Atom(h, <<>>), <<NegAtom(q, <<>>)>>, <<>>) :
            h \in SeqToSet(StratPreds), q \in SeqToSet(StratPreds)}
    \cup {Clause(Atom(h, <<>>), <<PosAtom(q, <<>>)>>, StratTransforms[t]) :
            h \in SeqToSet(StratPreds), q \in SeqToSet(StratPreds),
            t \in DOMAIN StratTransforms}

\* the sequences without repetition over the set S, of length at most n
RECURSIVE Arrangements(_, _)
Arrangements(S, n) ==
    IF n = 0 THEN {<<>>}
    ELSE LET shorter == Arrangements(S, n - 1)
         IN  shorter \cup {Append(a, x) : <<a, x>> \in
                              {y \in shorter \X S : y[2] \notin SeqToSet(y[1])}}

\* the iteration orders of the hash maps and sets keyed by predicate
Orders(S) == {o \in Arrangements(S, Cardinality(S)) : Len(o) = Cardinality(S)}

StratInit ==
    /\ prog \in Arrangements(StratClauses, MaxClauses) \ {<<>>}
    /\ ord \in Orders(SeqToSet(StratPreds))
    /\ strat = [ok |-> TRUE, strata |-> <<>>]
    /\ pc = "parsed"
    /\ store = MemStore_new /\ last = NoCall /\ nops = 0 /\ pending = {}
    /\ si = 0 /\ oi = 0 /\ changes = 0 /\ run = 0
    /\ inserted = 0 /\ derived = {} /\ overflow = "wrap"
    /\ ir = [rules |-> <<>>, n |-> 0, names |-> <<>>] /\ plans = <<>>
    /\ unit = NoUnit /\ rewritten = NoUnit
    /\ extended = NoUnit /\ checks = <<>>

\* Program::stratify on the assembled program
Stratify ==
    /\ pc = "parsed"
    /\ strat' = stratify(Program(prog), ord)
    /\ pc' = "stratified"
    /\ UNCHANGED <<store, last, nops, pending, prog, ord, ir, plans, si, oi, changes,
                   run, inserted, derived, overflow, unitVars, typeVars>>

StratNext == Stratify

StratSpec == StratInit /\ [][StratNext]_vars

\* the clause has a `do` transform (a transform statement without variable)
HasDo(clause) == \E i \in 1..Len(clause.transform) : clause.transform[i].var = NoVar

\* the premises <<head, premise predicate>> the statement calls negative dependencies
NegativeDeps(clauses) ==
    {<<clauses[i].head.sym, clauses[i].premises[j].atom.sym>> :
        <<i, j>> \in {x \in (1..Len(clauses)) \X (1..1) :
                        /\ x[2] <= Len(clauses[x[1]].premises)
                        /\ \/ clauses[x[1]].premises[x[2]].k = "neg"
                           \/ /\ clauses[x[1]].premises[x[2]].k = "atom"
                              /\ HasDo(clauses[x[1]])}}

\* all dependencies <<head, premise predicate>> over predicates with rules
AllDeps(clauses) ==
    {<<clauses[i].head.sym, clauses[i].premises[j].atom.sym>> :
        <<i, j>> \in {x \in (1..Len(clauses)) \X (1..1) :
                        x[2] <= Len(clauses[x[1]].premises)}}

\* b is reachable from a over the edges E in at most n steps
RECURSIVE Reaches(_, _, _, _)
Reaches(a, b, E, n) ==
    \/ a = b
    \/ n > 0 /\ \E e \in E : e[1] = a /\ Reaches(e[2], b, E, n - 1)

\* C4: in an accepted program, a predicate q with defining rules that occurs
\* negated in a rule for p, or positively in a rule for p that has a `do`
\* transform, lies in a strictly lower stratum than p.
C4_NegationLowerStratum ==
    (pc = "stratified" /\ strat.ok) =>
        \A d \in NegativeDeps(prog) :
            d[2] \in idb_preds(prog) =>
                pred_to_index(strat.strata, d[2]) < pred_to_index(strat.strata, d[1])

\* C5: a program whose dependency graph has a cycle through a negative edge
\* (a negated premise, or a premise of a clause with a `do` transform) is
\* rejected with "program cannot be stratified".
C5_NegativeCycleRejected ==
    (/\ pc = "stratified"
     /\ \E d \in NegativeDeps(prog) :
            Reaches(d[2], d[1], AllDeps(prog), Len(StratPreds)))
        => (~strat.ok /\ strat.err = StratifyError)

(***************************************************************************)
(* Lowering (analysis/src/lowering.rs), as far as planning depends on it:  *)
(* the number of IR instructions and the order in which names are interned.*)
(* z = [n |-> instructions so far, names |-> interned names in NameId      *)
(* order, vars |-> variables cached for the clause being lowered].         *)
(***************************************************************************)
Wildcard == "_"

\* Store::intern: a name gets the next id unless it has one
intern_name(names, name) ==
    IF name \in SeqToSet(names) THEN names ELSE Append(names, name)

add_inst(z) == [z EXCEPT !.n = @ + 1]

RECURSIVE lower_base_term(_, _)
RECURSIVE lower_base_terms(_, _, _)
lower_base_term(z, term) ==
    IF term.k = "var"
    THEN IF term.name \in z.vars THEN z
         ELSE [n |-> z.n + 1,
               names |-> intern_name(z.names, term.name),
               vars |-> IF term.name # Wildcard THEN z.vars \cup {term.name} ELSE z.vars]
    ELSE IF term.k = "num" THEN add_inst(z)
    ELSE add_inst(lower_base_terms([z EXCEPT !.names = intern_name(@, term.fn)],
                                   term.args, 1))

lower_base_terms(z, terms, i) ==
    IF i > Len(terms) THEN z
    ELSE lower_base_terms(lower_base_term(z, terms[i]), terms, i + 1)

lower_atom(z, atom) ==
    add_inst(lower_base_terms([z EXCEPT !.names = intern_name(@, atom.sym)], atom.args, 1))

lower_term(z, term) ==
    IF term.k = "atom" THEN lower_atom(z, term.atom)
    ELSE IF term.k = "neg" THEN add_inst(lower_atom(z, term.atom))
    ELSE add_inst(lower_base_term(lower_base_term(z, term.l), term.r))

lower_transform(z, t) ==
    add_inst(lower_base_term(
        IF t.var # NoVar THEN [z EXCEPT !.names = intern_name(@, t.var)] ELSE z,
        t.app))

RECURSIVE lower_terms(_, _, _)
lower_terms(z, premises, i) ==
    IF i > Len(premises) THEN z
    ELSE lower_terms(lower_term(z, premises[i]), premises, i + 1)

RECURSIVE lower_transforms(_, _, _)
lower_transforms(z, transform, i) ==
    IF i > Len(transform) THEN z
    ELSE lower_transforms(lower_transform(z, transform[i]), transform, i + 1)

lower_clause(z, clause) ==
    add_inst(lower_transforms(
                 lower_terms(lower_atom([z EXCEPT !.vars = {}], clause.head),
                             clause.premises, 1),
                 clause.transform, 1))

RECURSIVE lower_clauses(_, _, _)
lower_clauses(z, clauses, i) ==
    IF i > Len(clauses) THEN z
    ELSE lower_clauses(lower_clause(z, clauses[i]), clauses, i + 1)

\* the IR of a unit without declarations: its clauses are its Rule instructions
lower_unit(clauses) ==
    LET z == lower_clauses([n |-> 0, names |-> <<>>, vars |-> {}], clauses, 1)
    IN  [rules |-> clauses, n |-> z.n, names |-> z.names]

(***************************************************************************)
(* Physical operations (ir/src/physical.rs)                                *)
(***************************************************************************)
OperandVar(v) == [k |-> "Var", name |-> v]

OperandConst(n) == [k |-> "Const", n |-> n]

ExprCall(function, args) == [kind |-> "Call", function |-> function, args |-> args]

ExprValue(operand) == [kind |-> "Value", operand |-> operand]

CmpEq(left, right) == [kind |-> "Cmp", cmp |-> "Eq", left |-> left, right |-> right]

OpIterate(source, body) == [op |-> "Iterate", source |-> source, body |-> body]

OpFilter(cond, body) == [op |-> "Filter", cond |-> cond, body |-> body]

OpInsert(relation, args) == [op |-> "Insert", relation |-> relation, args |-> args]

OpLet(var, expr, body) == [op |-> "Let", var |-> var, expr |-> expr, body |-> body]

OpGroupBy(source, vs, keys, aggregates, body) ==
    [op |-> "GroupBy", source |-> source, vars |-> vs, keys |-> keys,
     aggregates |-> aggregates, body |-> body]

OpSeq(ops) == [op |-> "Seq", ops |-> ops]

SourceScan(relation, vs) == [kind |-> "Scan", relation |-> relation, vars |-> vs]

SourceScanDelta(relation, vs) == [kind |-> "ScanDelta", relation |-> relation, vars |-> vs]

SourceIndexLookup(relation, col_idx, key, vs) ==
    [kind |-> "IndexLookup", relation |-> relation, col_idx |-> col_idx,
     key |-> key, vars |-> vs]

(***************************************************************************)
(* Planner (analysis/src/planner.rs).  The code passes continuations; here *)
(* an operator returns what its continuation would receive.  A planner is  *)
(* [n |-> ir.insts.len(), delta_pred |-> predicate or NoDelta]; the name   *)
(* table `names` of the IR is threaded through, planning interns names but *)
(* adds no instruction.  Results are [ok |-> TRUE, ...] or                 *)
(* [ok |-> FALSE, err |-> message].                                        *)
(***************************************************************************)
NoDelta == "<no delta>"

Planner_new(lowered) == [n |-> lowered.n, delta_pred |-> NoDelta]

with_delta(planner, delta_pred) == [planner EXCEPT !.delta_pred = delta_pred]

PlanErr(msg, names) == [ok |-> FALSE, err |-> msg, names |-> names]

\* format!("${}_{}", prefix, self.ir.insts.len())
fresh_var(planner, prefix) == "$" \o prefix \o "_" \o ToString(planner.n)

\* the Let operations `lets` (outermost first) around `inner`
RECURSIVE WrapLets(_, _)
WrapLets(lets, inner) ==
    IF lets = <<>> THEN inner
    ELSE OpLet(lets[1].var, lets[1].expr, WrapLets(Tail(lets), inner))

\* the `?` of the code: an Err result is returned as it is, an Ok result goes on
Try(r, F(_)) == IF r.ok THEN F(r) ELSE r

\* with_eval and with_eval_args return the operand(s) handed to the
\* continuation and the Let operations wrapped around the continuation's result
RECURSIVE with_eval(_, _, _)
RECURSIVE with_eval_args(_, _, _, _)
with_eval(planner, names, inst) ==
    IF inst.k = "var"
    THEN [ok |-> TRUE, lets |-> <<>>, operand |-> OperandVar(inst.name), names |-> names]
    ELSE IF inst.k = "num"
    THEN [ok |-> TRUE, lets |-> <<>>, operand |-> OperandConst(inst.n), names |-> names]
    ELSE IF inst.k = "app"
    THEN Try(with_eval_args(planner, names, inst.args, 1),
             LAMBDA a :
                 [ok |-> TRUE,
                  lets |-> Append(a.lets, [var |-> fresh_var(planner, "call"),
                                           expr |-> ExprCall(inst.fn, a.ops)]),
                  operand |-> OperandVar(fresh_var(planner, "call")),
                  names |-> intern_name(a.names, fresh_var(planner, "call"))])
    ELSE PlanErr("Unsupported expression in evaluation", names)

with_eval_args(planner, names, args, index) ==
    IF index > Len(args)
    THEN [ok |-> TRUE, lets |-> <<>>, ops |-> <<>>, names |-> names]
    ELSE Try(with_eval(planner, names, args[index]),
             LAMBDA e :
                 Try(with_eval_args(planner, e.names, args, index + 1),
                     LAMBDA r :
                         [ok |-> TRUE, lets |-> e.lets \o r.lets,
                          ops |-> <<e.operand>> \o r.ops, names |-> r.names]))

inst_to_expr(planner, names, inst) ==
    IF inst.k = "app"
    THEN Try(with_eval_args(planner, names, inst.args, 1),
             LAMBDA a :
                 [ok |-> TRUE, lets |-> a.lets, expr |-> ExprCall(inst.fn, a.ops),
                  names |-> a.names])
    ELSE Try(with_eval(planner, names, inst),
             LAMBDA e :
                 [ok |-> TRUE, lets |-> e.lets, expr |-> ExprValue(e.operand),
                  names |-> e.names])

plan_head_insert(planner, names, head) ==
    Try(with_eval_args(planner, names, head.args, 1),
        LAMBDA a :
            [ok |-> TRUE, op |-> WrapLets(a.lets, OpInsert(head.sym, a.ops)),
             names |-> a.names, capture |-> <<>>])

\* the two continuations plan_rule passes down: insert the head, or
\* materialise the bound variables, sorted by NameId, into a temporary relation
TailHead(head) == [kind |-> "head", head |-> head]

TailTemp(relation) == [kind |-> "temp", relation |-> relation]

Continuation(planner, names, tail, bound_vars) ==
    IF tail.kind = "head" THEN plan_head_insert(planner, names, tail.head)
    ELSE LET sorted_vars == Ordered(bound_vars, names)
         IN  [ok |-> TRUE,
              op |-> OpInsert(tail.relation,
                              [i \in 1..Len(sorted_vars) |-> OperandVar(sorted_vars[i])]),
              names |-> names, capture |-> sorted_vars]

RECURSIVE plan_transforms_sequence(_, _, _, _, _)
plan_transforms_sequence(planner, names, transforms, bound_vars, tail) ==
    IF transforms = <<>> THEN Continuation(planner, names, tail, bound_vars)
    ELSE IF Head(transforms).var # NoVar
    THEN Try(inst_to_expr(planner, names, Head(transforms).app),
             LAMBDA e :
                 Try(plan_transforms_sequence(
                         planner, e.names, Tail(transforms),
                         bound_vars \cup {Head(transforms).var}, tail),
                     LAMBDA body :
                         [body EXCEPT
                             !.op = WrapLets(e.lets,
                                             OpLet(Head(transforms).var, e.expr, @))]))
    ELSE PlanErr("Unexpected transform in sequence", names)

wrap_eval_check(planner, names, inst, target, body) ==
    Try(with_eval(planner, names, inst),
        LAMBDA e :
            [ok |-> TRUE, names |-> e.names,
             op |-> WrapLets(e.lets, OpFilter(CmpEq(target, e.operand), body))])

wrap_eq_check(planner, names, l, r, body) ==
    Try(with_eval(planner, names, l),
        LAMBDA el :
            Try(with_eval(planner, el.names, r),
                LAMBDA er :
                    [ok |-> TRUE, names |-> er.names,
                     op |-> WrapLets(el.lets,
                                WrapLets(er.lets,
                                    OpFilter(CmpEq(el.operand, er.operand), body)))]))

\* `for (i, arg) in args.iter().enumerate().rev()`, i counting down from Len(args)
RECURSIVE apply_constraints(_, _, _, _, _, _)
apply_constraints(planner, names, args, scan_vars, body, i) ==
    IF i = 0 THEN [ok |-> TRUE, op |-> body, names |-> names]
    ELSE IF args[i].k = "var"
    THEN IF args[i].name = scan_vars[i]
         THEN apply_constraints(planner, names, args, scan_vars, body, i - 1)
         ELSE apply_constraints(
                  planner, names, args, scan_vars,
                  OpFilter(CmpEq(OperandVar(scan_vars[i]), OperandVar(args[i].name)), body),
                  i - 1)
    ELSE Try(wrap_eval_check(planner, names, args[i], OperandVar(scan_vars[i]), body),
             LAMBDA w : apply_constraints(planner, w.names, args, scan_vars, w.op, i - 1))

\* the argument can serve as index key: a bound variable or a number
IsIndexKey(arg, bound_vars) ==
    \/ arg.k = "var" /\ arg.name \in bound_vars
    \/ arg.k = "num"

\* the argument is a variable no earlier premise (or argument list) has bound
IsUnboundVar(arg, bound_vars) == arg.k = "var" /\ arg.name \notin bound_vars

\* the index key of an atom: its first argument that can serve as one (0: none)
IndexKey(args, bound_vars) ==
    IF \E i \in 1..Len(args) : IsIndexKey(args[i], bound_vars)
    THEN CHOOSE i \in 1..Len(args) :
             /\ IsIndexKey(args[i], bound_vars)
             /\ \A j \in 1..(i - 1) : ~IsIndexKey(args[j], bound_vars)
    ELSE 0

\* scan_vars: an unbound variable is bound by the scan, anything else gets `tmp`
ScanVars(args, bound_vars, tmp) ==
    [i \in 1..Len(args) |-> IF IsUnboundVar(args[i], bound_vars) THEN args[i].name ELSE tmp]

DataSourceOf(planner, predicate, args, bound_vars, scan_vars) ==
    IF IndexKey(args, bound_vars) # 0
    THEN SourceIndexLookup(
             predicate, IndexKey(args, bound_vars) - 1,
             IF args[IndexKey(args, bound_vars)].k = "var"
             THEN OperandVar(args[IndexKey(args, bound_vars)].name)
             ELSE OperandConst(args[IndexKey(args, bound_vars)].n),
             scan_vars)
    ELSE IF predicate = planner.delta_pred
    THEN SourceScanDelta(predicate, scan_vars)
    ELSE SourceScan(predicate, scan_vars)

\* join = [block |-> the let statements of block 0, tail |-> the continuation]
RECURSIVE plan_join_sequence(_, _, _, _, _)
RECURSIVE plan_join_atom(_, _, _, _, _, _, _)
plan_join_sequence(planner, names, premises, bound_vars, join) ==
    IF premises = <<>>
    THEN plan_transforms_sequence(planner, names, join.block, bound_vars, join.tail)
    ELSE IF Head(premises).k = "atom"
    THEN plan_join_atom(planner, names, premises, bound_vars, join,
                        Head(premises).atom.args,
                        ScanVars(Head(premises).atom.args, bound_vars,
                                 fresh_var(planner, "scan")))
    ELSE IF Head(premises).k = "eq"
    THEN Try(plan_join_sequence(planner, names, Tail(premises), bound_vars, join),
             LAMBDA body :
                 Try(wrap_eq_check(planner, body.names, Head(premises).l,
                                   Head(premises).r, body.op),
                     LAMBDA w :
                         [ok |-> TRUE, op |-> w.op, names |-> w.names,
                          capture |-> body.capture]))
    ELSE PlanErr("Unsupported premise type", names)

\* the Inst::Atom arm of plan_join_sequence
plan_join_atom(planner, names, premises, bound_vars, join, args, scan_vars) ==
    Try(plan_join_sequence(
            planner,
            IF \E i \in 1..Len(args) : ~IsUnboundVar(args[i], bound_vars)
            THEN intern_name(names, fresh_var(planner, "scan")) ELSE names,
            Tail(premises), bound_vars \cup SeqToSet(scan_vars), join),
        LAMBDA body :
            Try(apply_constraints(planner, body.names, args, scan_vars, body.op, Len(args)),
                LAMBDA wrapped_body :
                    [ok |-> TRUE,
                     op |-> OpIterate(DataSourceOf(planner, Head(premises).atom.sym, args,
                                                   bound_vars, scan_vars),
                                      wrapped_body.op),
                     names |-> wrapped_body.names, capture |-> body.capture]))

\* z = [blocks, current]
RECURSIVE SplitFrom(_, _, _)
SplitFrom(z, transforms, i) ==
    IF i > Len(transforms) THEN Append(z.blocks, z.current)
    ELSE LET t == transforms[i]
             z1 == IF t.var = NoVar
                   THEN [blocks |-> Append(z.blocks, z.current), current |-> <<>>]
                   ELSE z
         IN  SplitFrom([z1 EXCEPT !.current = Append(@, t)], transforms, i + 1)

split_transforms(transforms) ==
    SplitFrom([blocks |-> <<>>, current |-> <<>>], transforms, 1)

get_transform_app_args(names, t) ==
    IF t.app.k = "app" THEN [ok |-> TRUE, args |-> t.app.args]
    ELSE PlanErr("Invalid transform structure", names)

AggregateFns == {"fn:sum", "fn:count", "fn:max", "fn:min", "fn:collect"}

IsAggregate(t) == t.var # NoVar /\ t.app.k = "app" /\ t.app.fn \in AggregateFns

\* try_parse_aggregate: [ok, some |-> whether the statement is an aggregate, agg]
try_parse_aggregate(names, t) ==
    IF IsAggregate(t)
    THEN IF \A i \in 1..Len(t.app.args) : t.app.args[i].k \in {"var", "num"}
         THEN [ok |-> TRUE, some |-> TRUE,
               agg |-> [var |-> t.var, func |-> t.app.fn,
                        args |-> [i \in 1..Len(t.app.args) |->
                                    IF t.app.args[i].k = "var"
                                    THEN OperandVar(t.app.args[i].name)
                                    ELSE OperandConst(t.app.args[i].n)]]]
         ELSE PlanErr("Complex expressions in aggregates not supported yet", names)
    ELSE [ok |-> TRUE, some |-> FALSE]

\* the loop `for &t in rest` of plan_block_k: z = [aggregates, lets]
RECURSIVE ParseBlock(_, _, _, _)
ParseBlock(names, rest, i, z) ==
    IF i > Len(rest) THEN [ok |-> TRUE, aggregates |-> z.aggregates, lets |-> z.lets]
    ELSE Try(try_parse_aggregate(names, rest[i]),
             LAMBDA a :
                 ParseBlock(names, rest, i + 1,
                            IF a.some THEN [z EXCEPT !.aggregates = Append(@, a.agg)]
                            ELSE [z EXCEPT !.lets = Append(@, rest[i])]))

plan_block_k(planner, names, source_rel, source_vars, block, tail) ==
    Try(get_transform_app_args(names, block[1]),
        LAMBDA keys_insts :
            IF \E i \in 1..Len(keys_insts.args) : keys_insts.args[i].k # "var"
            THEN PlanErr("GroupBy keys must be variables", names)
            ELSE Try(ParseBlock(names, Tail(block), 1, [aggregates |-> <<>>, lets |-> <<>>]),
                     LAMBDA parsed :
                         Try(plan_transforms_sequence(
                                 planner, names, parsed.lets,
                                 {keys_insts.args[i].name : i \in 1..Len(keys_insts.args)}
                                   \cup {parsed.aggregates[i].var :
                                           i \in 1..Len(parsed.aggregates)},
                                 tail),
                             LAMBDA body :
                                 [body EXCEPT
                                     !.op = OpGroupBy(
                                                source_rel, source_vars,
                                                [i \in 1..Len(keys_insts.args) |->
                                                    keys_insts.args[i].name],
                                                parsed.aggregates, @)])))

\* the loop over the blocks of plan_rule (i counts from 0);
\* z = [ops, names, current_source |-> [rel, vars]]
RECURSIVE PlanBlocks(_, _, _, _, _)
PlanBlocks(planner, rule, blocks, i, z) ==
    IF i >= Len(blocks) THEN [ok |-> TRUE, ops |-> z.ops, names |-> z.names]
    ELSE LET is_last == i = Len(blocks) - 1
             temp_rel == fresh_var(planner, "temp_grp")
             names1 == IF is_last THEN z.names ELSE intern_name(z.names, temp_rel)
             tail == IF is_last THEN TailHead(rule.head) ELSE TailTemp(temp_rel)
         IN  Try(IF i = 0
                 THEN plan_join_sequence(planner, names1, rule.premises, {},
                                         [block |-> blocks[i + 1], tail |-> tail])
                 ELSE plan_block_k(planner, names1, z.current_source.rel,
                                   z.current_source.vars, blocks[i + 1], tail),
                 LAMBDA r :
                     PlanBlocks(planner, rule, blocks, i + 1,
                                [ops |-> Append(z.ops, r.op), names |-> r.names,
                                 current_source |-> [rel |-> temp_rel, vars |-> r.capture]]))

plan_rule(planner, names, rule) ==
    Try(PlanBlocks(planner, rule, split_transforms(rule.transform), 0,
                   [ops |-> <<>>, names |-> names,
                    current_source |-> [rel |-> "", vars |-> <<>>]]),
        LAMBDA r :
            [ok |-> TRUE, names |-> r.names,
             op |-> IF Len(r.ops) = 1 THEN r.ops[1] ELSE OpSeq(r.ops)])

(***************************************************************************)
(* Interpreter (interpreter/src/lib.rs).  Values are numbers: an i64 is    *)
(* modelled with IntBits bits.  `a + b` on i64 wraps in a build without    *)
(* overflow checks and panics in a build with them: `ov` is "wrap" or      *)
(* "panic".  An outcome is "ok", "err" (an Err is returned) or "panic".    *)
(***************************************************************************)
MinInt == -(2 ^ (IntBits - 1))

MaxInt == 2 ^ (IntBits - 1) - 1

\* two's complement wrap-around to IntBits bits
Wrap(x) == ((x - MinInt) % (2 ^ IntBits)) + MinInt

\* Value::Null, which is no number
Null == MinInt - 1

EvalErr(msg) == [out |-> "err", msg |-> msg]

EvalPanic(msg) == [out |-> "panic", msg |-> msg]

EvalOk(val) == [out |-> "ok", val |-> val]

\* checked or wrapping arithmetic on i64
Arith(x, ov) ==
    IF x < MinInt \/ x > MaxInt
    THEN IF ov = "panic" THEN EvalPanic("arithmetic overflow") ELSE EvalOk(Wrap(x))
    ELSE EvalOk(x)

eval_operand(operand, env) ==
    IF operand.k = "Var"
    THEN IF operand.name \in DOMAIN env THEN EvalOk(env[operand.name])
         ELSE EvalErr("Variable not found")
    ELSE EvalOk(operand.n)

\* `for arg in args { vals.push(self.eval_operand(arg, env)?) }`
RECURSIVE eval_operands(_, _, _, _)
eval_operands(args, env, i, vals) ==
    IF i > Len(args) THEN EvalOk(vals)
    ELSE LET v == eval_operand(args[i], env)
         IN  IF v.out # "ok" THEN v
             ELSE eval_operands(args, env, i + 1, Append(vals, v.val))

eval_expr(expr, env, ov) ==
    IF expr.kind = "Value" THEN eval_operand(expr.operand, env)
    ELSE LET vs == eval_operands(expr.args, env, 1, <<>>)
         IN  IF vs.out # "ok" THEN vs
             ELSE IF expr.function \in {"fn:plus", "fn:minus"}
             THEN IF Len(vs.val) < 2 THEN EvalPanic("index out of bounds")
                  ELSE IF vs.val[1] = Null \/ vs.val[2] = Null
                  THEN EvalErr("Type mismatch")
                  ELSE IF expr.function = "fn:plus"
                  THEN Arith(vs.val[1] + vs.val[2], ov)
                  ELSE Arith(vs.val[1] - vs.val[2], ov)
             ELSE EvalErr("Unknown function")

\* one tuple of the loop of Condition::Negation: "match", "differ" or an error
RECURSIVE NegationTuple(_, _, _, _)
NegationTuple(tuple, args, env, i) ==
    IF i > Len(args) THEN EvalOk("match")
    ELSE LET v == eval_operand(args[i], env)
         IN  IF v.out # "ok" THEN v
             ELSE IF tuple[i] # v.val THEN EvalOk("differ")
             ELSE NegationTuple(tuple, args, env, i + 1)

RECURSIVE NegationScan(_, _, _, _)
NegationScan(tuples, args, env, i) ==
    IF i > Len(tuples) THEN EvalOk(TRUE)
    ELSE IF Len(tuples[i]) # Len(args) THEN NegationScan(tuples, args, env, i + 1)
    ELSE LET m == NegationTuple(tuples[i], args, env, 1)
         IN  IF m.out # "ok" THEN m
             ELSE IF m.val = "match" THEN EvalOk(FALSE)
             ELSE NegationScan(tuples, args, env, i + 1)

Compare(cmp, l, r) ==
    IF cmp = "Eq" THEN l = r
    ELSE IF cmp = "Neq" THEN l # r
    ELSE IF cmp = "Lt" THEN l < r
    ELSE IF cmp = "Le" THEN l <= r
    ELSE IF cmp = "Gt" THEN l > r
    ELSE l >= r

eval_cond(cond, env, st) ==
    IF cond.kind = "Cmp"
    THEN LET l == eval_operand(cond.left, env)
             r == eval_operand(cond.right, env)
         IN  IF l.out # "ok" THEN l
             ELSE IF r.out # "ok" THEN r
             ELSE EvalOk(Compare(cond.cmp, l.val, r.val))
    ELSE IF cond.kind = "Negation"
    THEN NegationScan(scan(st, cond.relation), cond.args, env, 1)
    ELSE EvalOk(TRUE)

\* `for (i, var) in vars.iter().enumerate() { env.vars.insert(*var, tuple[i]) }`
RECURSIVE BindVars(_, _, _, _)
BindVars(env, vs, tuple, i) ==
    IF i > Len(vs) THEN env
    ELSE BindVars(Put(env, vs[i], tuple[i]), vs, tuple, i + 1)

\* the loops of fn:sum, fn:max and fn:min over a group; z = [env, acc, some]
RECURSIVE AggregateLoop(_, _, _, _, _, _, _)
AggregateLoop(func, arg, group, vs, i, z, ov) ==
    IF i > Len(group) THEN [out |-> "ok", val |-> z.acc, env |-> z.env, some |-> z.some]
    ELSE LET env1 == BindVars(z.env, vs, group[i], 1)
             v == eval_operand(arg, env1)
             sum == Arith(z.acc + v.val, ov)
         IN  IF v.out # "ok" THEN v
             ELSE IF func = "fn:sum"
             THEN IF v.val = Null
                  THEN AggregateLoop(func, arg, group, vs, i + 1, [z EXCEPT !.env = env1], ov)
                  ELSE IF sum.out # "ok" THEN sum
                  ELSE AggregateLoop(func, arg, group, vs, i + 1,
                                     [env |-> env1, acc |-> sum.val, some |-> TRUE], ov)
             ELSE AggregateLoop(
                      func, arg, group, vs, i + 1,
                      [env |-> env1, some |-> TRUE,
                       acc |-> IF ~z.some THEN v.val
                               ELSE IF func = "fn:max" /\ v.val > z.acc THEN v.val
                               ELSE IF func = "fn:min" /\ v.val < z.acc THEN v.val
                               ELSE z.acc],
                      ov)

\* returns the value and the environment, which the loops rebind
eval_aggregate(agg, group, vs, env, ov) ==
    IF agg.func = "fn:count"
    THEN [out |-> "ok", val |-> Len(group), env |-> env]
    ELSE IF agg.func \in {"fn:sum", "fn:max", "fn:min"}
    THEN IF agg.args = <<>> THEN EvalErr(agg.func \o " requires 1 argument")
         ELSE LET r == AggregateLoop(agg.func, agg.args[1], group, vs, 1,
                                     [env |-> env, acc |-> 0, some |-> FALSE], ov)
              IN  IF r.out # "ok" THEN r
                  ELSE IF agg.func # "fn:sum" /\ ~r.some
                  THEN EvalErr(agg.func \o " on empty group")
                  ELSE r
    ELSE EvalErr("Unknown aggregation function")

ExecOk(count, st, env) == [out |-> "ok", count |-> count, st |-> st, env |-> env]

\* the failure r (an Err or a panic) leaves exec_op
ExecFail(r, st, env) == [out |-> r.out, msg |-> r.msg, count |-> 0, st |-> st, env |-> env]

\* the key of a tuple's group: the values of the key variables, Null when unbound
GroupKey(keys, env) ==
    [i \in 1..Len(keys) |-> IF keys[i] \in DOMAIN env THEN env[keys[i]] ELSE Null]

\* groups.entry(key).or_default().push(tuple); the groups are kept in the
\* order in which their keys first occur
AddToGroup(groups, key, tuple) ==
    IF \E g \in 1..Len(groups) : groups[g].key = key
    THEN [g \in 1..Len(groups) |->
            IF groups[g].key = key
            THEN [groups[g] EXCEPT !.tuples = Append(@, tuple)] ELSE groups[g]]
    ELSE Append(groups, [key |-> key, tuples |-> <<tuple>>])

\* the grouping loop of Op::GroupBy; z = [env, groups]
RECURSIVE GroupTuples(_, _, _, _, _)
GroupTuples(tuples, i, vs, keys, z) ==
    IF i > Len(tuples) THEN z
    ELSE IF Len(tuples[i]) # Len(vs) THEN GroupTuples(tuples, i + 1, vs, keys, z)
    ELSE LET env1 == BindVars(z.env, vs, tuples[i], 1)
         IN  GroupTuples(tuples, i + 1, vs, keys,
                         [env |-> env1,
                          groups |-> AddToGroup(z.groups, GroupKey(keys, env1), tuples[i])])

\* `for agg in aggregates`: returns [out, env]
RECURSIVE AggregatesLoop(_, _, _, _, _, _)
AggregatesLoop(aggregates, i, group, vs, env, ov) ==
    IF i > Len(aggregates) THEN [out |-> "ok", env |-> env]
    ELSE LET v == eval_aggregate(aggregates[i], group, vs, env, ov)
         IN  IF v.out # "ok" THEN v
             ELSE AggregatesLoop(aggregates, i + 1, group, vs,
                                 Put(v.env, aggregates[i].var, v.val), ov)

RECURSIVE exec_op(_, _, _, _)
RECURSIVE IterateLoop(_, _, _, _, _, _)
RECURSIVE SeqLoop(_, _, _, _)
RECURSIVE GroupLoop(_, _, _, _, _)
exec_op(op, env, st, ov) ==
    IF op.op = "Nop" THEN ExecOk(0, st, env)
    ELSE IF op.op = "Seq" THEN SeqLoop(op.ops, 1, ExecOk(0, st, env), ov)
    ELSE IF op.op = "Iterate"
    THEN LET source == op.source
             key_val == eval_operand(source.key, env)
             tuples == IF source.kind = "Scan" THEN scan(st, source.relation)
                       ELSE IF source.kind = "ScanDelta"
                       THEN scan_delta(st, source.relation)
                       ELSE scan_index(st, source.relation, source.col_idx, key_val.val)
         IN  IF source.kind = "IndexLookup" /\ key_val.out # "ok"
             THEN ExecFail(key_val, st, env)
             ELSE IterateLoop(tuples, 1, source.vars, op.body, ExecOk(0, st, env), ov)
    ELSE IF op.op = "Filter"
    THEN LET c == eval_cond(op.cond, env, st)
         IN  IF c.out # "ok" THEN ExecFail(c, st, env)
             ELSE IF c.val THEN exec_op(op.body, env, st, ov)
             ELSE ExecOk(0, st, env)
    ELSE IF op.op = "Insert"
    THEN LET tuple == eval_operands(op.args, env, 1, <<>>)
             r == insert(st, op.relation, tuple.val)
         IN  IF tuple.out # "ok" THEN ExecFail(tuple, st, env)
             ELSE ExecOk(IF r.ok THEN 1 ELSE 0, r.st, env)
    ELSE IF op.op = "Let"
    THEN LET val == eval_expr(op.expr, env, ov)
         IN  IF val.out # "ok" THEN ExecFail(val, st, env)
             ELSE exec_op(op.body, Put(env, op.var, val.val), st, ov)
    ELSE LET tuples == scan(st, op.source) \o scan_next_delta(st, op.source)
             g == GroupTuples(tuples, 1, op.vars, op.keys, [env |-> env, groups |-> <<>>])
         IN  GroupLoop(op, g.groups, 1, ExecOk(0, st, g.env), ov)

\* `for tuple in tuples` of Op::Iterate; z is the result so far
IterateLoop(tuples, i, vs, body, z, ov) ==
    IF i > Len(tuples) THEN z
    ELSE IF Len(tuples[i]) # Len(vs) THEN IterateLoop(tuples, i + 1, vs, body, z, ov)
    ELSE LET r == exec_op(body, BindVars(z.env, vs, tuples[i], 1), z.st, ov)
         IN  IF r.out # "ok" THEN r
             ELSE IterateLoop(tuples, i + 1, vs, body,
                              [r EXCEPT !.count = z.count + @], ov)

\* `for o in ops` of Op::Seq
SeqLoop(ops, i, z, ov) ==
    IF i > Len(ops) THEN z
    ELSE LET r == exec_op(ops[i], z.env, z.st, ov)
         IN  IF r.out # "ok" THEN r
             ELSE SeqLoop(ops, i + 1, [r EXCEPT !.count = z.count + @], ov)

\* `for (key, group_tuples) in groups` of Op::GroupBy
GroupLoop(op, groups, i, z, ov) ==
    IF i > Len(groups) THEN z
    ELSE LET env1 == BindVars(z.env, op.keys, groups[i].key, 1)
             a == AggregatesLoop(op.aggregates, 1, groups[i].tuples, op.vars, env1, ov)
             r == exec_op(op.body, a.env, z.st, ov)
         IN  IF a.out # "ok" THEN ExecFail(a, z.st, env1)
             ELSE IF r.out # "ok" THEN r
             ELSE GroupLoop(op, groups, i + 1, [r EXCEPT !.count = z.count + @], ov)

\* Interpreter::execute: a fresh environment for every operation
execute_op(op, st, ov) == exec_op(op, EmptyMap, st, ov)

(***************************************************************************)
(* Driver (driver/src/lib.rs): pre-planning of execute                     *)
(***************************************************************************)
\* rule_ids: the Rule instructions whose head predicate is in the stratum, in IR order
RuleIds(lowered, stratum) ==
    SelectSeq([i \in 1..Len(lowered.rules) |-> i],
              LAMBDA i : lowered.rules[i].head.sym \in stratum)

is_recursive(lowered, rule_ids, stratum) ==
    \E x \in 1..Len(rule_ids) :
        LET premises == lowered.rules[rule_ids[x]].premises
        IN  \E j \in 1..Len(premises) :
                premises[j].k = "atom" /\ premises[j].atom.sym \in stratum

\* `for rule_id in rule_ids { ops.push(Planner::new(ir).plan_rule(rule_id)?) }`
RECURSIVE PlanRules(_, _, _, _, _)
PlanRules(lowered, names, rule_ids, i, ops) ==
    IF i > Len(rule_ids) THEN [ok |-> TRUE, ops |-> ops, names |-> names]
    ELSE Try(plan_rule(Planner_new(lowered), names, lowered.rules[rule_ids[i]]),
             LAMBDA r : PlanRules(lowered, r.names, rule_ids, i + 1, Append(ops, r.op)))

\* the premises of one rule that get a delta plan: <<rule_id, predicate>>
RECURSIVE DeltaPremises(_, _, _, _)
DeltaPremises(lowered, rule_id, stratum, j) ==
    LET premises == lowered.rules[rule_id].premises
    IN  IF j > Len(premises) THEN <<>>
        ELSE (IF premises[j].k = "atom" /\ premises[j].atom.sym \in stratum
              THEN <<(<<rule_id, premises[j].atom.sym>>)>> ELSE <<>>)
             \o DeltaPremises(lowered, rule_id, stratum, j + 1)

RECURSIVE DeltaPairs(_, _, _, _)
DeltaPairs(lowered, rule_ids, stratum, i) ==
    IF i > Len(rule_ids) THEN <<>>
    ELSE DeltaPremises(lowered, rule_ids[i], stratum, 1)
         \o DeltaPairs(lowered, rule_ids, stratum, i + 1)

\* delta_plans.push(Planner::new(ir).with_delta(predicate).plan_rule(rule_id)?)
RECURSIVE PlanDeltas(_, _, _, _, _)
PlanDeltas(lowered, names, pairs, i, ops) ==
    IF i > Len(pairs) THEN [ok |-> TRUE, ops |-> ops, names |-> names]
    ELSE Try(plan_rule(with_delta(Planner_new(lowered), pairs[i][2]), names,
                       lowered.rules[pairs[i][1]]),
             LAMBDA r : PlanDeltas(lowered, r.names, pairs, i + 1, Append(ops, r.op)))

NoPlan == [kind |-> "None"]

\* the body of `for stratum in stratified.strata()`
PlanStratum(lowered, names, stratum) ==
    IF RuleIds(lowered, stratum) = <<>>
    THEN [ok |-> TRUE, plan |-> NoPlan, names |-> names]
    ELSE Try(PlanRules(lowered, names, RuleIds(lowered, stratum), 1, <<>>),
             LAMBDA first :
                 IF ~is_recursive(lowered, RuleIds(lowered, stratum), stratum)
                 THEN [ok |-> TRUE, names |-> first.names,
                       plan |-> [kind |-> "NonRecursive", ops |-> first.ops]]
                 ELSE Try(PlanDeltas(lowered, first.names,
                                     DeltaPairs(lowered, RuleIds(lowered, stratum),
                                                stratum, 1),
                                     1, <<>>),
                          LAMBDA deltas :
                              [ok |-> TRUE, names |-> deltas.names,
                               plan |-> [kind |-> "Recursive", initial_ops |-> first.ops,
                                         delta_plans |-> deltas.ops]]))

RECURSIVE PlanStrata(_, _, _, _, _)
PlanStrata(lowered, names, strata, i, strata_plans) ==
    IF i > Len(strata) THEN [ok |-> TRUE, strata_plans |-> strata_plans, names |-> names]
    ELSE Try(PlanStratum(lowered, names, strata[i]),
             LAMBDA r :
                 PlanStrata(lowered, r.names, strata, i + 1, Append(strata_plans, r.plan)))

\* `for pred in stratified.extensional_preds() { create_relation(name) }`
RECURSIVE CreateRelations(_, _)
CreateRelations(st, preds) ==
    IF preds = {} THEN st
    ELSE LET pred == CHOOSE x \in preds : TRUE
         IN  CreateRelations(create_relation(st, pred), preds \ {pred})

\* `if changes == 0 { break; }`
FixpointNever(c) == c < 0

FixpointReached(c) == c = 0

\* the merge_deltas call that ends every stratum
stratum_skip_merge(st) == st

stratum_merge(st) == merge_deltas(st)

\* the facts of all relations in all buckets, as <<relation, tuple>>
AllFacts(st) ==
    UNION {{<<r, t>> : t \in SeqToSet(Buckets(st, r))} :
              r \in (DOMAIN st.stable) \cup (DOMAIN st.delta) \cup (DOMAIN st.next_delta)}

(***************************************************************************)
(* Units and the rename pass (parse/src/lib.rs, analysis/src/rename.rs).   *)
(* A predicate symbol is its name: Arena::predicate_sym looks symbols up   *)
(* by name only.  A declaration is [atom, descr, bounds, constraints].     *)
(***************************************************************************)
\* parse_package_decl; package_decl("") is empty_package_decl
package_decl(name) == Decl(Atom("Package", <<>>), <<Atom("name", <<Str(name)>>)>>, None)

use_decl(name) == Decl(Atom("Use", <<>>), <<Atom("name", <<Str(name)>>)>>, None)

\* the first `name` atom of the description whose first argument is a string
RECURSIVE find_name_desc(_, _)
find_name_desc(descr, i) ==
    IF i > Len(descr) THEN None
    ELSE IF /\ descr[i].sym = "name"
            /\ Len(descr[i].args) > 0
            /\ descr[i].args[1].k = "str"
         THEN Some(descr[i].args[1].s)
         ELSE find_name_desc(descr, i + 1)

\* the loop of find_package_info; z = [pkg_name, used_pkgs]
RECURSIVE PackageInfo(_, _, _)
PackageInfo(decls, i, z) ==
    IF i > Len(decls) THEN z
    ELSE IF decls[i].atom.sym = "Package" /\ find_name_desc(decls[i].descr, 1).some
    THEN PackageInfo(decls, i + 1,
                     [z EXCEPT !.pkg_name = find_name_desc(decls[i].descr, 1).v])
    ELSE IF decls[i].atom.sym = "Use" /\ find_name_desc(decls[i].descr, 1).some
    THEN PackageInfo(decls, i + 1,
                     [z EXCEPT !.used_pkgs = @ \cup {find_name_desc(decls[i].descr, 1).v}])
    ELSE PackageInfo(decls, i + 1, z)

find_package_info(u) == PackageInfo(u.decls, 1, [pkg_name |-> "", used_pkgs |-> {}])

find_defined_preds(u) ==
    {u.decls[i].atom.sym : i \in 1..Len(u.decls)}
        \cup {u.clauses[i].head.sym : i \in 1..Len(u.clauses)}

\* the names without a dot that the units of the model are written with
Identifiers == {"foo", "bar", "baz"}

\* format!("{}.{}", prefix, name)
Dotted(prefix, name) == prefix \o "." \o name

\* name[..name.rfind('.')] is a used package: the part after the last dot has no dot
HasUsedPrefix(name, used_pkgs) ==
    \E prefix \in used_pkgs, last_part \in Identifiers : name = Dotted(prefix, last_part)

\* a Renamer without its cache, which only memoizes rename_pred
Renamer(u) ==
    [pkg_name |-> find_package_info(u).pkg_name,
     used_pkgs |-> find_package_info(u).used_pkgs,
     defined_preds |-> find_defined_preds(u)]

\* a rename that leaves every predicate as it is
rename_pred_never(r, sym) == sym

rename_pred(r, sym) ==
    IF sym \in {"Package", "Use"} THEN sym
    ELSE IF sym \in r.defined_preds THEN Dotted(r.pkg_name, sym)
    ELSE IF HasUsedPrefix(sym, r.used_pkgs) THEN sym
    ELSE sym

rewrite_atom(r, atom) == Atom(rename_pred(r, atom.sym), atom.args)

\* a name constant of a bound that names a defined predicate gets the package prefix
rewrite_bound_term(r, t) ==
    IF t.k = "name" /\ t.name \in r.defined_preds
    THEN NameConst(Dotted(r.pkg_name, t.name))
    ELSE t

rewrite_bounds(r, bounds) ==
    IF bounds.some
    THEN Some([i \in 1..Len(bounds.v) |->
                  [j \in 1..Len(bounds.v[i]) |-> rewrite_bound_term(r, bounds.v[i][j])]])
    ELSE None

\* None for the Package and Use declarations, which are removed
rewrite_decl(r, decl) ==
    IF decl.atom.sym \in {"Package", "Use"} THEN None
    ELSE Some([atom |-> rewrite_atom(r, decl.atom),
               descr |-> decl.descr,
               bounds |-> rewrite_bounds(r, decl.bounds),
               constraints |-> decl.constraints])

rewrite_premise(r, premise) ==
    IF premise.k \in {"atom", "neg"}
    THEN [premise EXCEPT !.atom = rewrite_atom(r, @)]
    ELSE premise

rewrite_clause(r, clause) ==
    Clause(rewrite_atom(r, clause.head),
           [j \in 1..Len(clause.premises) |-> rewrite_premise(r, clause.premises[j])],
           clause.transform)

RECURSIVE rewrite_decls(_, _, _)
rewrite_decls(r, decls, i) ==
    IF i > Len(decls) THEN <<>>
    ELSE (IF rewrite_decl(r, decls[i]).some THEN <<rewrite_decl(r, decls[i]).v>> ELSE <<>>)
         \o rewrite_decls(r, decls, i + 1)

\* a rewrite that does not return early on an empty package name
rewrite_unit_any_package(u) ==
    Unit(rewrite_decls(Renamer(u), u.decls, 1),
         [i \in 1..Len(u.clauses) |-> rewrite_clause(Renamer(u), u.clauses[i])])

rewrite_unit(u) ==
    IF find_package_info(u).pkg_name = ""
    THEN Unit(u.decls, u.clauses)
    ELSE Unit(rewrite_decls(Renamer(u), u.decls, 1),
              [i \in 1..Len(u.clauses) |-> rewrite_clause(Renamer(u), u.clauses[i])])

\* Program::extensional_preds
extensional_preds(program) == program.ext_preds

\* Program::intensional_preds
intensional_preds(program) == DOMAIN program.rules

(***************************************************************************)
(* The execution specification: a unit is compiled and executed twice on a *)
(* store that holds up to MaxFacts facts of the extensional relation e.    *)
(* One step per interpreter.execute(op) and per merge_deltas of execute.   *)
(***************************************************************************)
X == Var("X")

Y == Var("Y")

Z == Var("Z")

W == Var(Wildcard)

\* reachable/edge of test_driver_reachability, and a stratum above it
ReachProgram ==
    <<Clause(Atom("p", <<X, Y>>), <<PosAtom("e", <<X, Y>>)>>, <<>>),
      Clause(Atom("p", <<X, Z>>), <<PosAtom("p", <<X, Y>>), PosAtom("e", <<Y, Z>>)>>, <<>>),
      Clause(Atom("q", <<X>>), <<PosAtom("p", <<X, Y>>)>>, <<>>)>>

\* transitive closure with the recursive predicate in both premises
NonlinearProgram ==
    <<Clause(Atom("p", <<X, Y>>), <<PosAtom("e", <<X, Y>>)>>, <<>>),
      Clause(Atom("p", <<X, Z>>), <<PosAtom("p", <<X, Y>>), PosAtom("p", <<Y, Z>>)>>, <<>>)>>

\* a rule whose two premises are the same recursive predicate, on unrelated variables
PairsProgram ==
    <<Clause(Atom("p", <<X>>), <<PosAtom("e", <<X, Y>>)>>, <<>>),
      Clause(Atom("r", <<X, Y>>), <<PosAtom("p", <<X>>), PosAtom("p", <<Y>>)>>, <<>>),
      Clause(Atom("p", <<Y>>), <<PosAtom("r", <<X, Z>>), PosAtom("e", <<Z, Y>>)>>, <<>>)>>

\* stratified negation with bound variables
NegationProgram ==
    <<Clause(Atom("p", <<X>>), <<PosAtom("e", <<X, Y>>)>>, <<>>),
      Clause(Atom("q", <<X>>), <<PosAtom("e", <<Y, X>>)>>, <<>>),
      Clause(Atom("r", <<X>>), <<PosAtom("p", <<X>>), NegAtom("q", <<X>>)>>, <<>>)>>

\* recursion through arithmetic (the let of test_driver_let_transform)
CounterProgram ==
    <<Clause(Atom("p", <<Num(1)>>), <<>>, <<>>),
      Clause(Atom("p", <<Y>>), <<PosAtom("p", <<X>>)>>,
             <<Let("Y", ApplyFn("fn:plus", <<X, Num(1)>>))>>)>>

\* a recursive rule whose head variable no premise binds
UnboundHeadProgram ==
    <<Clause(Atom("p", <<X>>), <<PosAtom("e", <<X, Y>>)>>, <<>>),
      Clause(Atom("p", <<Z>>), <<PosAtom("p", <<X>>)>>, <<>>)>>

\* mutual recursion
MutualProgram ==
    <<Clause(Atom("p", <<X>>), <<PosAtom("e", <<X, Y>>)>>, <<>>),
      Clause(Atom("q", <<Y>>), <<PosAtom("p", <<X>>), PosAtom("e", <<X, Y>>)>>, <<>>),
      Clause(Atom("p", <<X>>), <<PosAtom("q", <<X>>)>>, <<>>)>>

\* the aggregation of test_driver_aggregation
SumProgram ==
    <<Clause(Atom("p", <<X, Y>>), <<PosAtom("e", <<X, Y>>)>>, <<>>),
      Clause(Atom("q", <<X, Z>>), <<PosAtom("p", <<X, Y>>)>>,
             <<Do(ApplyFn("fn:group_by", <<X>>)), Let("Z", ApplyFn("fn:sum", <<Y>>))>>)>>

\* an equality premise, a constant argument and a join of two lower strata
ConstProgram ==
    <<Clause(Atom("p", <<X>>), <<PosAtom("e", <<X, Y>>), Eq(X, Y)>>, <<>>),
      Clause(Atom("q", <<Y>>), <<PosAtom("e", <<Num(1), Y>>)>>, <<>>),
      Clause(Atom("r", <<X>>), <<PosAtom("p", <<X>>), PosAtom("q", <<X>>)>>, <<>>)>>

\* two aggregation rules over the same relation (fn:sum and fn:count)
TwoAggProgram ==
    <<Clause(Atom("q", <<X, Z>>), <<PosAtom("e", <<X, Y>>)>>,
             <<Do(ApplyFn("fn:group_by", <<X>>)), Let("Z", ApplyFn("fn:sum", <<Y>>))>>),
      Clause(Atom("r", <<X, Z>>), <<PosAtom("e", <<Y, X>>)>>,
             <<Do(ApplyFn("fn:group_by", <<X>>)), Let("Z", ApplyFn("fn:count", <<>>))>>)>>

ExecPrograms ==
    {ReachProgram, NonlinearProgram, PairsProgram, NegationProgram, CounterProgram,
     UnboundHeadProgram, MutualProgram, SumProgram, ConstProgram, TwoAggProgram}

ExecPreds == {"p", "q", "r"}

EdbRelation == "e"

TupleLess(a, b) == a[1] < b[1] \/ (a[1] = b[1] /\ a[2] < b[2])

\* the initial contents of e: up to MaxFacts pairs over Vals, added in increasing order
InitialFacts ==
    {f \in Arrangements(Vals \X Vals, MaxFacts) :
        \A i \in 1..(Len(f) - 1) : TupleLess(f[i], f[i + 1])}

RECURSIVE LoadFacts(_, _, _, _)
LoadFacts(st, relation, facts, i) ==
    IF i > Len(facts) THEN st
    ELSE LoadFacts(add_fact(st, relation, facts[i]), relation, facts, i + 1)

ExecInit ==
    /\ prog \in ExecPrograms
    /\ ord \in Orders(ExecPreds)
    /\ overflow \in {"wrap", "panic"}
    /\ \E f \in InitialFacts : store = LoadFacts(MemStore_new, EdbRelation, f, 1)
    /\ strat = [ok |-> TRUE, strata |-> <<>>]
    /\ ir = [rules |-> <<>>, n |-> 0, names |-> <<>>]
    /\ plans = <<>>
    /\ pc = "source"
    /\ si = 0 /\ oi = 0 /\ changes = 0 /\ run = 1 /\ inserted = 0 /\ derived = {}
    /\ last = NoCall /\ nops = 0 /\ pending = {}
    /\ unit = Unit(<<package_decl("")>>, prog)
    /\ rewritten = NoUnit
    /\ extended = NoUnit /\ checks = <<>>

storeVars == <<last, nops, pending>>

\* compile: rename, assemble, stratify, lower
Compile ==
    /\ pc = "source"
    /\ rewritten' = rewrite_unit(unit)
    /\ prog' = rewrite_unit(unit).clauses
    /\ strat' = stratify(Program(rewrite_unit(unit).clauses), ord)
    /\ ir' = lower_unit(rewrite_unit(unit).clauses)
    /\ pc' = IF strat'.ok THEN "compiled" ELSE "rejected"
    /\ UNCHANGED <<store, ord, plans, si, oi, changes, run, inserted, derived,
                   overflow, storeVars, unit, typeVars>>

\* execute, part 1: pre-plan every stratum; a planning error returns from execute
Planned(r) ==
    /\ ir' = [ir EXCEPT !.names = r.names]
    /\ plans' = IF r.ok THEN r.strata_plans ELSE <<>>
    /\ pc' = IF r.ok THEN "planned" ELSE "error"

PlanAll ==
    /\ pc = "compiled"
    /\ Planned(PlanStrata(ir, ir.names, strat.strata, 1, <<>>))
    /\ UNCHANGED <<store, prog, ord, strat, si, oi, changes, run, inserted, derived,
                   overflow, storeVars, unitVars, typeVars>>

\* where execute continues when it reaches stratum plan i
Phase(i) ==
    IF i > Len(plans) THEN "returned"
    ELSE IF plans[i].kind = "NonRecursive" THEN "nonrec"
    ELSE IF plans[i].kind = "Recursive" THEN "initial"
    ELSE "stratum_end"

\* execute, part 2: create the extensional relations and enter the first stratum
InitEDB ==
    /\ pc = "planned"
    /\ store' = CreateRelations(store, Program(prog).ext_preds)
    /\ si' = 1 /\ oi' = 1
    /\ pc' = Phase(1)
    /\ UNCHANGED <<prog, ord, strat, ir, plans, changes, run, inserted, derived,
                   overflow, storeVars, unitVars, typeVars>>

\* the effect of one interpreter.execute(op)? on the store and the history
Executed(r, next) ==
    /\ store' = r.st
    /\ inserted' = inserted + r.count
    /\ derived' = derived \cup (AllFacts(r.st) \ AllFacts(store))
    /\ pc' = IF r.out = "ok" THEN next ELSE IF r.out = "err" THEN "error" ELSE "panicked"

ExecNonRecursive ==
    /\ pc = "nonrec"
    /\ Executed(execute_op(plans[si].ops[oi], store, overflow),
                IF oi = Len(plans[si].ops) THEN "stratum_end" ELSE "nonrec")
    /\ oi' = oi + 1
    /\ UNCHANGED <<prog, ord, strat, ir, plans, si, changes, run, overflow, storeVars, unitVars, typeVars>>

ExecInitial ==
    /\ pc = "initial"
    /\ Executed(execute_op(plans[si].initial_ops[oi], store, overflow),
                IF oi = Len(plans[si].initial_ops) THEN "merge_initial" ELSE "initial")
    /\ oi' = oi + 1
    /\ UNCHANGED <<prog, ord, strat, ir, plans, si, changes, run, overflow, storeVars, unitVars, typeVars>>

\* merge_deltas after the initial plans, then enter the loop with changes = 0
MergeInitial ==
    /\ pc = "merge_initial"
    /\ store' = merge_deltas(store)
    /\ changes' = 0 /\ oi' = 1
    /\ pc' = "loop"
    /\ UNCHANGED <<prog, ord, strat, ir, plans, si, run, inserted, derived, overflow,
                   storeVars, unitVars, typeVars>>

ExecDelta ==
    /\ pc = "loop"
    /\ LET r == execute_op(plans[si].delta_plans[oi], store, overflow)
       IN  /\ Executed(r, IF oi = Len(plans[si].delta_plans) THEN "loop_check" ELSE "loop")
           /\ changes' = changes + r.count
    /\ oi' = oi + 1
    /\ UNCHANGED <<prog, ord, strat, ir, plans, si, run, overflow, storeVars, unitVars, typeVars>>

\* `if changes == 0 { break; }`
LoopExit ==
    /\ pc = "loop_check"
    /\ FixpointReached(changes)
    /\ pc' = "stratum_end"
    /\ UNCHANGED <<store, prog, ord, strat, ir, plans, si, oi, changes, run, inserted,
                   derived, overflow, storeVars, unitVars, typeVars>>

\* merge_deltas at the end of a loop iteration, then the next iteration
LoopMerge ==
    /\ pc = "loop_check"
    /\ ~FixpointReached(changes)
    /\ store' = merge_deltas(store)
    /\ changes' = 0 /\ oi' = 1
    /\ pc' = "loop"
    /\ UNCHANGED <<prog, ord, strat, ir, plans, si, run, inserted, derived, overflow,
                   storeVars, unitVars, typeVars>>

\* merge_deltas after the stratum, then the next stratum or Ok(interpreter)
StratumEnd ==
    /\ pc = "stratum_end"
    /\ store' = stratum_merge(store)
    /\ si' = si + 1 /\ oi' = 1
    /\ pc' = Phase(si + 1)
    /\ UNCHANGED <<prog, ord, strat, ir, plans, changes, run, inserted, derived,
                   overflow, storeVars, unitVars, typeVars>>

\* a second execute on the same IR, the same stratification and the resulting store
Reexecute ==
    /\ pc = "returned"
    /\ run = 1
    /\ run' = 2
    /\ inserted' = 0
    /\ si' = 0 /\ oi' = 0 /\ changes' = 0
    /\ pc' = "compiled"
    /\ UNCHANGED <<store, prog, ord, strat, ir, plans, derived, overflow, storeVars, unitVars, typeVars>>

ExecNext ==
    \/ Compile
    \/ PlanAll
    \/ InitEDB
    \/ ExecNonRecursive
    \/ ExecInitial
    \/ MergeInitial
    \/ ExecDelta
    \/ LoopExit
    \/ LoopMerge
    \/ StratumEnd
    \/ Reexecute

ExecSpec == ExecInit /\ [][ExecNext]_vars

\* execute has not returned yet; the second call is the last one followed
Running == pc \notin {"rejected", "error", "panicked"} /\ ~(pc = "returned" /\ run = 2)

\* where execute stands: the code location, the stratum, the plan and the call
position == <<pc, si, oi, run>>

Locations ==
    {"source", "compiled", "rejected", "planned", "error", "panicked", "nonrec",
     "initial", "merge_initial", "loop", "loop_check", "stratum_end", "returned"}

\* execute moves to another position.  Every step of ExecNext is such a step
\* (ExecStepsAdvance), and one is possible exactly while execute is Running.
Advance ==
    /\ Running
    /\ pc' \in Locations
    /\ si' \in 0..(Len(strat.strata) + 1)
    /\ oi' \in 0..(2 * Len(prog) + 1)
    /\ run' \in {1, 2}

ExecStepsAdvance == [][Advance /\ position' # position]_vars

\* execute is sequential code: while it has not returned it keeps running
ExecFairSpec == ExecSpec /\ WF_position(Advance)

(***************************************************************************)
(* Naive evaluation, the reference the statements about execute speak of:  *)
(* a rule derives its head for every substitution of its variables that    *)
(* satisfies all premises; facts are pairs <<relation, tuple>>.            *)
(***************************************************************************)
RECURSIVE TermValue(_, _)
TermValue(term, sigma) ==
    IF term.k = "var"
    THEN IF term.name \in DOMAIN sigma THEN sigma[term.name] ELSE Null
    ELSE IF term.k = "num" THEN term.n
    ELSE IF term.fn = "fn:plus"
    THEN Wrap(TermValue(term.args[1], sigma) + TermValue(term.args[2], sigma))
    ELSE Wrap(TermValue(term.args[1], sigma) - TermValue(term.args[2], sigma))

\* some fact of the atom's relation agrees with the atom under sigma
AtomHolds(atom, sigma, facts) ==
    \E f \in facts :
        /\ f[1] = atom.sym
        /\ Len(f[2]) = Len(atom.args)
        /\ \A i \in 1..Len(atom.args) :
              \/ atom.args[i].k = "var" /\ atom.args[i].name = Wildcard
              \/ f[2][i] = TermValue(atom.args[i], sigma)

PremiseHolds(premise, sigma, facts) ==
    IF premise.k = "atom" THEN AtomHolds(premise.atom, sigma, facts)
    ELSE IF premise.k = "neg" THEN ~AtomHolds(premise.atom, sigma, facts)
    ELSE TermValue(premise.l, sigma) = TermValue(premise.r, sigma)

\* the variables of the positive premises
RuleVars(rule) ==
    {rule.premises[x[1]].atom.args[x[2]].name :
        x \in {y \in (1..Len(rule.premises)) \X (1..4) :
                 /\ rule.premises[y[1]].k = "atom"
                 /\ y[2] <= Len(rule.premises[y[1]].atom.args)
                 /\ rule.premises[y[1]].atom.args[y[2]].k = "var"
                 /\ rule.premises[y[1]].atom.args[y[2]].name # Wildcard}}

ValuesOf(facts) == UNION {SeqToSet(f[2]) : f \in facts}

\* the let statements extend the substitution in order
RECURSIVE ApplyLets(_, _, _)
ApplyLets(transform, sigma, i) ==
    IF i > Len(transform) THEN sigma
    ELSE ApplyLets(transform,
                   Put(sigma, transform[i].var, TermValue(transform[i].app, sigma)),
                   i + 1)

\* the head facts a rule without `do` derives from `facts` in one step
Derive(rule, facts) ==
    {<<rule.head.sym,
       [i \in 1..Len(rule.head.args) |->
           TermValue(rule.head.args[i], ApplyLets(rule.transform, sigma, 1))]>> :
        sigma \in {g \in [RuleVars(rule) -> ValuesOf(facts)] :
                     \A j \in 1..Len(rule.premises) :
                         PremiseHolds(rule.premises[j], g, facts)}}

RECURSIVE NaiveLfp(_, _)
NaiveLfp(rules, facts) ==
    LET next == facts \cup UNION {Derive(rule, facts) : rule \in rules}
    IN  IF next = facts THEN facts ELSE NaiveLfp(rules, next)

FactsOf(facts, pred) == {f \in facts : f[1] = pred}

\* the rules of the unit whose head is in the stratum
StratumRules(stratum) == {prog[i] : i \in {j \in 1..Len(prog) : prog[j].head.sym \in stratum}}

\* C1: after execute, every predicate of a recursive stratum holds exactly the
\* naive least fixed point of the stratum's rules over the facts of the
\* extensional relations and the lower strata.
C1_SemiNaiveEqualsNaive ==
    pc = "returned" =>
        \A i \in 1..Len(plans) :
            plans[i].kind = "Recursive" =>
                LET stratum == strat.strata[i]
                    inputs == {f \in AllFacts(store) : f[1] \notin stratum}
                    lfp == NaiveLfp(StratumRules(stratum), inputs)
                IN  \A pred \in stratum :
                        FactsOf(AllFacts(store), pred) = FactsOf(lfp, pred)

Returns == pc \in {"returned", "error", "panicked"}

\* C2 (amended): execute terminates: it returns an error, aborts on overflow, or
\* returns after every recursive loop has left through an iteration that
\* inserted nothing.
C2_ExecuteTerminates ==
    /\ [](pc = "compiled" => <>Returns)
    /\ [][(pc = "loop_check" /\ pc' = "stratum_end") => changes = 0]_vars

\* C2 (as stated): every recursive loop that is entered eventually runs an
\* iteration that inserts nothing and exits.
C2_EveryLoopReachesFixpoint == [](pc = "loop" => <>(pc = "stratum_end"))

C2_Witness ==
    /\ pc = "stratum_end"
    /\ plans[si].kind = "Recursive"
    /\ Cardinality(FactsOf(derived, "p")) >= 3
    /\ changes = 0

\* C3: a second execute on the same IR and the resulting store inserts nothing.
C3_SecondExecuteInsertsNothing == run = 2 => inserted = 0

\* the rule has a negated premise whose variables earlier positive premises bind
HasBoundNegation(rule) ==
    \E j \in 1..Len(rule.premises) :
        /\ rule.premises[j].k = "neg"
        /\ \A a \in 1..Len(rule.premises[j].atom.args) :
              rule.premises[j].atom.args[a].k = "var" =>
                  \E b \in 1..(j - 1) :
                      /\ rule.premises[b].k = "atom"
                      /\ rule.premises[j].atom.args[a] \in SeqToSet(rule.premises[b].atom.args)

\* C6: a program with a negated premise over bound variables executes, and the
\* rule's head holds exactly the bindings of the positive premises for which
\* the negated predicate has no matching tuple.
C6_NegationExecutes ==
    \A i \in 1..Len(prog) :
        HasBoundNegation(prog[i]) =>
            /\ pc # "error"
            /\ pc = "returned" =>
                  FactsOf(AllFacts(store), prog[i].head.sym)
                      = UNION {Derive(rule, AllFacts(store)) :
                                 rule \in StratumRules({prog[i].head.sym})}

AtStratumStart == pc \in {"nonrec", "initial"} /\ oi = 1 /\ si >= 2

\* C7: when a stratum after the first starts, every fact derived so far is
\* returned by scan and by scan_index of its relation, and none is in next-delta.
C7_EarlierStrataVisible ==
    AtStratumStart =>
        \A f \in derived :
            /\ f[2] \in SeqToSet(scan(store, f[1]))
            /\ \A c \in 1..Len(f[2]) :
                  f[2] \in SeqToSet(scan_index(store, f[1], c - 1, f[2][c]))
            /\ f[2] \notin SeqToSet(scan_next_delta(store, f[1]))

C7_Witness ==
    /\ AtStratumStart
    /\ run = 1
    /\ \E f \in derived : f[2] \in SeqToSet(scan_delta(store, f[1]))
    /\ \E f \in derived : f[2] \in SeqToSet(GetOr(store.stable, f[1], <<>>))

\* how many Iterate operations of the plan read the source kind
RECURSIVE SourceReads(_, _)
RECURSIVE SourceReadsSeq(_, _, _)
SourceReads(op, kind) ==
    IF op.op = "Iterate"
    THEN (IF op.source.kind = kind THEN 1 ELSE 0) + SourceReads(op.body, kind)
    ELSE IF op.op \in {"Filter", "Let", "GroupBy"} THEN SourceReads(op.body, kind)
    ELSE IF op.op = "Seq" THEN SourceReadsSeq(op.ops, kind, 1)
    ELSE 0

SourceReadsSeq(ops, kind, i) ==
    IF i > Len(ops) THEN 0
    ELSE SourceReads(ops[i], kind) + SourceReadsSeq(ops, kind, i + 1)

\* the pairs (rule, premise over a predicate of the stratum)
RecursivePremises(stratum) ==
    {x \in (1..Len(prog)) \X (1..4) :
        /\ prog[x[1]].head.sym \in stratum
        /\ x[2] <= Len(prog[x[1]].premises)
        /\ prog[x[1]].premises[x[2]].k = "atom"
        /\ prog[x[1]].premises[x[2]].atom.sym \in stratum}

\* C14: a recursive stratum gets one delta plan per pair (rule, premise over a
\* predicate of the stratum), and in each delta plan exactly one premise reads
\* the delta set (ScanDelta).
C14_OneDeltaReadPerPlan ==
    \A i \in 1..Len(plans) :
        plans[i].kind = "Recursive" =>
            /\ Len(plans[i].delta_plans) = Cardinality(RecursivePremises(strat.strata[i]))
            /\ \A d \in 1..Len(plans[i].delta_plans) :
                  SourceReads(plans[i].delta_plans[d], "ScanDelta") = 1

(***************************************************************************)
(* The planner round trip: one rule without transform is lowered, planned  *)
(* by Planner::new(ir).plan_rule and the plan is executed once on a store  *)
(* that holds one tuple for each premise (premise i reads its own          *)
(* relation, a or b).                                                      *)
(***************************************************************************)
RoundTripTerms == {X, Y, Num(1)}

RoundTripAtoms(sym) == {PosAtom(sym, <<s, t>>) : s \in RoundTripTerms, t \in RoundTripTerms}

RoundTripPremises ==
    {<<a>> : a \in RoundTripAtoms("a")}
        \cup (RoundTripAtoms("a") \X RoundTripAtoms("b"))
        \cup (RoundTripAtoms("a") \X {Eq(X, Y), Eq(X, Num(1))})

RoundTripHeads ==
    {Atom("h", <<s>>) : s \in RoundTripTerms} \cup {Atom("h", <<X, Y>>), Atom("h", <<Y, X>>)}

HeadVars(rule) ==
    {rule.head.args[i].name : i \in {j \in 1..Len(rule.head.args) : rule.head.args[j].k = "var"}}

\* the variables of the equality premises
EqVars(rule) ==
    UNION {{t.name : t \in {u \in {rule.premises[i].l, rule.premises[i].r} : u.k = "var"}} :
              i \in {j \in 1..Len(rule.premises) : rule.premises[j].k = "eq"}}

\* premises with wildcards: a(X, _), a(_, X), a(_, _), alone or followed by such
\* an atom over b
WildcardAtoms(sym) ==
    {PosAtom(sym, <<s, t>>) : s \in {X, W}, t \in {X, W}} \ {PosAtom(sym, <<X, X>>)}

WildcardPremises ==
    {<<a>> : a \in WildcardAtoms("a")} \cup (WildcardAtoms("a") \X WildcardAtoms("b"))

\* the rules whose head and equality variables all occur in a positive premise
RoundTripRules ==
    {rule \in {Clause(h, ps, <<>>) :
                  h \in RoundTripHeads, ps \in RoundTripPremises \cup WildcardPremises} :
        HeadVars(rule) \cup EqVars(rule) \subseteq RuleVars(rule)}

HasPremiseOver(rule, sym) ==
    \E i \in 1..Len(rule.premises) :
        rule.premises[i].k = "atom" /\ rule.premises[i].atom.sym = sym

RoundTripStore(rule, ta, tb) ==
    IF HasPremiseOver(rule, "b")
    THEN add_fact(add_fact(MemStore_new, "a", ta), "b", tb)
    ELSE add_fact(MemStore_new, "a", ta)

RoundTripInit ==
    /\ \E rule \in RoundTripRules, ta \in Vals \X Vals, tb \in Vals \X Vals :
          /\ prog = <<rule>>
          /\ store = RoundTripStore(rule, ta, tb)
    /\ ord = <<>>
    /\ overflow = "wrap"
    /\ strat = [ok |-> TRUE, strata |-> <<>>]
    /\ ir = [rules |-> <<>>, n |-> 0, names |-> <<>>]
    /\ plans = <<>>
    /\ pc = "rule"
    /\ si = 0 /\ oi = 0 /\ changes = 0 /\ run = 1 /\ inserted = 0 /\ derived = {}
    /\ last = NoCall /\ nops = 0 /\ pending = {}
    /\ unit = Unit(<<>>, prog)
    /\ rewritten = NoUnit
    /\ extended = NoUnit /\ checks = <<>>

\* LoweringContext::lower_unit on the unit that holds the rule
LowerRule ==
    /\ pc = "rule"
    /\ ir' = lower_unit(prog)
    /\ pc' = "lowered"
    /\ UNCHANGED <<store, prog, ord, strat, plans, si, oi, changes, run, inserted,
                   derived, overflow, storeVars, unitVars, typeVars>>

RulePlanned(r) ==
    /\ ir' = [ir EXCEPT !.names = r.names]
    /\ plans' = IF r.ok THEN <<[kind |-> "NonRecursive", ops |-> <<r.op>>]>> ELSE <<>>
    /\ pc' = IF r.ok THEN "plan" ELSE "error"

\* Planner::new(&mut ir).plan_rule(rule_inst)
PlanRule ==
    /\ pc = "lowered"
    /\ RulePlanned(plan_rule(Planner_new(ir), ir.names, ir.rules[1]))
    /\ UNCHANGED <<store, prog, ord, strat, si, oi, changes, run, inserted, derived,
                   overflow, storeVars, unitVars, typeVars>>

\* Interpreter::execute of the plan
ExecutePlan ==
    /\ pc = "plan"
    /\ Executed(execute_op(plans[1].ops[1], store, overflow), "returned")
    /\ UNCHANGED <<prog, ord, strat, ir, plans, si, oi, changes, run, overflow, storeVars, unitVars, typeVars>>

RoundTripNext == LowerRule \/ PlanRule \/ ExecutePlan

RoundTripSpec == RoundTripInit /\ [][RoundTripNext]_vars

\* the head instances of the rule under the substitutions that satisfy every
\* premise with the tuple stored for it
DirectSubstitution ==
    Derive(prog[1], FactsOf(AllFacts(store), "a") \cup FactsOf(AllFacts(store), "b"))

\* C15: executing the plan of a rule without aggregation on one tuple per
\* premise inserts a head fact if and only if the tuples satisfy all premises
\* under one substitution, and the fact is the head instantiated by it.
C15_PlanRoundTrip ==
    pc \in {"returned", "error", "panicked"} =>
        FactsOf(AllFacts(store), "h") = DirectSubstitution

\* the temporary relations read by the GroupBy operations of a plan, in plan order
RECURSIVE TempRelations(_)
RECURSIVE TempRelationsSeq(_, _)
TempRelations(op) ==
    IF op.op = "GroupBy" THEN <<op.source>> \o TempRelations(op.body)
    ELSE IF op.op \in {"Iterate", "Filter", "Let"} THEN TempRelations(op.body)
    ELSE IF op.op = "Seq" THEN TempRelationsSeq(op.ops, 1)
    ELSE <<>>

TempRelationsSeq(ops, i) ==
    IF i > Len(ops) THEN <<>>
    ELSE TempRelations(ops[i]) \o TempRelationsSeq(ops, i + 1)

\* the plans that plan each rule of the stratum once
RulePlans(plan) ==
    IF plan.kind = "NonRecursive" THEN plan.ops
    ELSE IF plan.kind = "Recursive" THEN plan.initial_ops
    ELSE <<>>

\* the temporary relation of every aggregation boundary of the unit
RECURSIVE AllTempRelations(_)
AllTempRelations(i) ==
    IF i > Len(plans) THEN <<>>
    ELSE TempRelationsSeq(RulePlans(plans[i]), 1) \o AllTempRelations(i + 1)

\* C16: any two aggregation boundaries planned against the same IR are given
\* distinct temporary relations $temp_grp_<n>.
C16_TempRelationsDistinct ==
    \A i, j \in 1..Len(AllTempRelations(1)) :
        i # j => AllTempRelations(1)[i] # AllTempRelations(1)[j]

(***************************************************************************)
(* Aggregation, the reference: the bindings of the premises are grouped by *)
(* the values of the group_by variables and each group gives one head.     *)
(***************************************************************************)
\* the substitutions of the rule's variables that satisfy every premise
Bindings(rule, facts) ==
    {g \in [RuleVars(rule) -> ValuesOf(facts)] :
        \A j \in 1..Len(rule.premises) : PremiseHolds(rule.premises[j], g, facts)}

\* q(K, A) :- ... |> do fn:group_by(K); let A = fn:sum(V)  (or fn:count())
IsGroupedRule(rule) ==
    /\ Len(rule.transform) = 2
    /\ rule.transform[1].var = NoVar
    /\ rule.transform[1].app.fn = "fn:group_by"
    /\ rule.transform[2].var # NoVar
    /\ rule.transform[2].app.fn \in {"fn:sum", "fn:count"}

GroupOf(rule, facts, g) ==
    {h \in Bindings(rule, facts) :
        \A i \in 1..Len(rule.transform[1].app.args) :
            h[rule.transform[1].app.args[i].name] = g[rule.transform[1].app.args[i].name]}

RECURSIVE SumOf(_, _)
SumOf(group, v) ==
    IF group = {} THEN 0
    ELSE LET g == CHOOSE x \in group : TRUE
         IN  g[v] + SumOf(group \ {g}, v)

AggregateOf(rule, group) ==
    IF rule.transform[2].app.fn = "fn:sum"
    THEN SumOf(group, rule.transform[2].app.args[1].name)
    ELSE Cardinality(group)

\* one head per group: the key with the aggregate of the group
GroupedHeads(rule, facts) ==
    {<<rule.head.sym,
       [i \in 1..Len(rule.head.args) |->
           TermValue(rule.head.args[i],
                     Put(g, rule.transform[2].var,
                         AggregateOf(rule, GroupOf(rule, facts, g))))]>> :
        g \in Bindings(rule, facts)}

\* C17: after execute, the head relation of every rule
\* `q(K, A) :- p(...) |> do fn:group_by(K); let A = agg(V)`, agg = fn:sum or
\* fn:count, holds exactly one tuple per value of K among the bindings of the
\* premises, with A the sum of V over the group (fn:sum) or the number of
\* bindings of the group (fn:count).
C17_AggregationPerGroup ==
    pc = "returned" =>
        \A i \in 1..Len(prog) :
            IsGroupedRule(prog[i]) =>
                FactsOf(AllFacts(store), prog[i].head.sym)
                    = GroupedHeads(prog[i], AllFacts(store))

(***************************************************************************)
(* The unit specification: a parsed unit (package header, Use and Decl     *)
(* declarations, clauses) is compiled, or rewrite_unit is applied to it    *)
(* and then to its own result.                                             *)
(***************************************************************************)
MaxUnitClauses == 2   \* clauses of a unit

UnitClauses ==
    {Clause(Atom("foo", <<X>>), <<PosAtom("bar", <<X>>)>>, <<>>),
     Clause(Atom("bar", <<Num(1)>>), <<>>, <<>>),
     Clause(Atom("foo", <<X>>), <<PosAtom("other.bar", <<X>>)>>, <<>>),
     Clause(Atom("foo", <<X>>), <<PosAtom("bar", <<X>>), NegAtom("baz", <<X>>)>>, <<>>),
     Clause(Atom("other.bar", <<X>>), <<PosAtom("baz", <<X>>)>>, <<>>)}

UnitDecls ==
    {Decl(Atom("baz", <<X>>), <<>>, None),
     Decl(Atom("foo", <<X>>), <<>>, Some(<<(<<NameConst("bar"), NameConst("/number")>>)>>)),
     Decl(Atom("other.bar", <<X>>), <<>>, None)}

\* a unit has no Decl declaration or one
UnitDeclLists == {<<>>} \cup {<<d>> : d \in UnitDecls}

\* parse_unit: the package declaration (the empty one without a header), the
\* Use declarations, then the Decl declarations and the clauses
Units ==
    {Unit(<<package_decl(p)>> \o uses \o decls, clauses) :
        p \in {"", "pkg"},
        uses \in {<<>>, <<use_decl("other")>>},
        decls \in UnitDeclLists,
        clauses \in Arrangements(UnitClauses, MaxUnitClauses) \ {<<>>}}

UnitInit ==
    /\ unit \in Units
    /\ prog = unit.clauses
    /\ ord \in Orders(all_preds(rewrite_unit(unit).clauses))
    /\ rewritten = NoUnit
    /\ extended = NoUnit /\ checks = <<>>
    /\ overflow = "wrap"
    /\ store = MemStore_new
    /\ strat = [ok |-> TRUE, strata |-> <<>>]
    /\ ir = [rules |-> <<>>, n |-> 0, names |-> <<>>]
    /\ plans = <<>>
    /\ pc = "source"
    /\ si = 0 /\ oi = 0 /\ changes = 0 /\ run = 1 /\ inserted = 0 /\ derived = {}
    /\ last = NoCall /\ nops = 0 /\ pending = {}

\* rewrite_unit(&arena, &unit)
RewriteUnit ==
    /\ pc = "source"
    /\ rewritten' = rewrite_unit(unit)
    /\ pc' = "renamed"
    /\ UNCHANGED <<store, prog, ord, strat, ir, plans, si, oi, changes, run, inserted,
                   derived, overflow, storeVars, unit, typeVars>>

\* rewrite_unit applied to the unit it returned
RewriteAgain ==
    /\ pc = "renamed"
    /\ rewritten' = rewrite_unit(rewritten)
    /\ pc' = "renamed_twice"
    /\ UNCHANGED <<store, prog, ord, strat, ir, plans, si, oi, changes, run, inserted,
                   derived, overflow, storeVars, unit, typeVars>>

UnitNext == Compile \/ RewriteUnit \/ RewriteAgain

UnitSpec == UnitInit /\ [][UnitNext]_vars

\* the declarations of predicates: all but the Package and Use declarations
RECURSIVE PredicateDecls(_, _)
PredicateDecls(decls, i) ==
    IF i > Len(decls) THEN <<>>
    ELSE (IF decls[i].atom.sym \in {"Package", "Use"} THEN <<>> ELSE <<decls[i]>>)
         \o PredicateDecls(decls, i + 1)

\* the predicates that appear in the unit: in a declaration, a head or a premise
UnitPredicates(u) ==
    {PredicateDecls(u.decls, 1)[i].atom.sym : i \in 1..Len(PredicateDecls(u.decls, 1))}
        \cup all_preds(u.clauses)

\* C18: the extensional and intensional predicates of the assembled program
\* are disjoint, and together they contain every predicate that appears in the
\* compiled unit (heads, positive and negated premises, declarations).
C18_PredicatesPartitioned ==
    pc \in {"compiled", "rejected"} =>
        /\ extensional_preds(Program(prog)) \cap intensional_preds(Program(prog)) = {}
        /\ UnitPredicates(rewritten)
              \subseteq extensional_preds(Program(prog)) \cup intensional_preds(Program(prog))

\* the places of a unit that refer to a predicate
Sites(u) ==
    {<<"head", i, 0>> : i \in 1..Len(u.clauses)}
        \cup {<<"premise", x[1], x[2]>> :
                 x \in {y \in (1..Len(u.clauses)) \X (1..4) :
                          /\ y[2] <= Len(u.clauses[y[1]].premises)
                          /\ u.clauses[y[1]].premises[y[2]].k \in {"atom", "neg"}}}
        \cup {<<"decl", i, 0>> : i \in 1..Len(PredicateDecls(u.decls, 1))}

SymAt(u, x) ==
    IF x[1] = "head" THEN u.clauses[x[2]].head.sym
    ELSE IF x[1] = "premise" THEN u.clauses[x[2]].premises[x[3]].atom.sym
    ELSE PredicateDecls(u.decls, 1)[x[2]].atom.sym

\* the predicates the unit defines: by a declaration or by a clause head
DefinedInUnit(u) ==
    {PredicateDecls(u.decls, 1)[i].atom.sym : i \in 1..Len(PredicateDecls(u.decls, 1))}
        \cup idb_preds(u.clauses)

PackageOf(u) == find_package_info(u).pkg_name

UsedBy(u) == find_package_info(u).used_pkgs

AfterRename == pc = "renamed" /\ PackageOf(unit) # ""

\* C19, as stated: every reference to a predicate defined in the unit becomes
\* P.<name>, every reference whose prefix is a used package is unchanged, and
\* every unprefixed reference to a predicate not defined in the unit is unchanged.
C19_RenameLocalityAsStated ==
    AfterRename =>
        /\ Sites(rewritten) = Sites(unit)
        /\ \A x \in Sites(unit) :
              /\ SymAt(unit, x) \in DefinedInUnit(unit)
                    => SymAt(rewritten, x) = Dotted(PackageOf(unit), SymAt(unit, x))
              /\ HasUsedPrefix(SymAt(unit, x), UsedBy(unit))
                    => SymAt(rewritten, x) = SymAt(unit, x)
              /\ (SymAt(unit, x) \in Identifiers /\ SymAt(unit, x) \notin DefinedInUnit(unit))
                    => SymAt(rewritten, x) = SymAt(unit, x)

\* C19, amended: every reference to a predicate defined in the unit becomes
\* P.<name>, also when its name has the prefix of a used package; a reference
\* to a predicate not defined in the unit is unchanged, with a used prefix or
\* without prefix.
C19_RenameLocality ==
    AfterRename =>
        /\ Sites(rewritten) = Sites(unit)
        /\ \A x \in Sites(unit) :
              /\ SymAt(unit, x) \in DefinedInUnit(unit)
                    => SymAt(rewritten, x) = Dotted(PackageOf(unit), SymAt(unit, x))
              /\ (HasUsedPrefix(SymAt(unit, x), UsedBy(unit))
                    /\ SymAt(unit, x) \notin DefinedInUnit(unit))
                    => SymAt(rewritten, x) = SymAt(unit, x)
              /\ (SymAt(unit, x) \in Identifiers /\ SymAt(unit, x) \notin DefinedInUnit(unit))
                    => SymAt(rewritten, x) = SymAt(unit, x)

\* a renamed unit with a local reference, a reference into a used package and
\* an unprefixed reference to a predicate defined elsewhere
C19_Witness ==
    /\ AfterRename
    /\ UsedBy(unit) = {"other"}
    /\ \E x, y, z \in Sites(unit) :
          /\ SymAt(unit, x) = "foo" /\ SymAt(rewritten, x) = "pkg.foo"
          /\ SymAt(unit, y) = "other.bar" /\ SymAt(rewritten, y) = "other.bar"
          /\ SymAt(unit, z) = "baz" /\ SymAt(rewritten, z) = "baz"

\* C20: for a unit without package header (empty package name) rewrite_unit
\* returns the declarations and clauses of its input, and so does rewrite_unit
\* applied to that result.
C20_NoPackageIdentity ==
    (PackageOf(unit) = "" /\ pc \in {"renamed", "renamed_twice"}) =>
        /\ rewritten.decls = unit.decls
        /\ rewritten.clauses = unit.clauses

C20_Witness ==
    /\ pc = "renamed_twice"
    /\ PackageOf(unit) = ""
    /\ Len(unit.decls) = 3
    /\ Len(unit.clauses) = 2
    /\ rewritten = unit

(***************************************************************************)
(* The type checker (analysis/src/type_check.rs).  A type is a record:     *)
(* [t |-> "Any"], ..., [t |-> "List", of |-> inner].  The checker reads the *)
(* Decl and Rule instructions of the IR; a variable is its interned name,  *)
(* and every wildcard lowers to a Var with the name "_".                   *)
(***************************************************************************)
Type(t) == [t |-> t]

ListOf(inner) == [t |-> "List", of |-> inner]

\* lower_decl: the atom and the BoundDecl instructions of a declaration
lower_decl(decl) ==
    [atom |-> decl.atom, bounds |-> IF decl.bounds.some THEN decl.bounds.v ELSE <<>>]

\* lower_unit: the Decl instructions, then the Rule instructions
lower_unit_insts(u) ==
    [decls |-> [i \in 1..Len(u.decls) |-> lower_decl(u.decls[i])], rules |-> u.clauses]

RECURSIVE resolve_type(_)
resolve_type(term) ==
    IF term.k = "name"
    THEN IF term.name = "/string" THEN Type("String")
         ELSE IF term.name = "/number" THEN Type("Number")
         ELSE IF term.name = "/float" THEN Type("Float")
         ELSE IF term.name = "/bool" THEN Type("Bool")
         ELSE IF term.name = "/bytes" THEN Type("Bytes")
         ELSE Type("Any")
    ELSE IF term.k = "app"
    THEN IF term.fn \in {"fn:List", "fn:list"}
         THEN ListOf(IF term.args # <<>> THEN resolve_type(term.args[1]) ELSE Type("Any"))
         ELSE Type("Any")
    ELSE Type("Any")

\* the type sequence collect_signature records for a declaration
signature(d) ==
    IF d.bounds # <<>>
    THEN [i \in 1..Len(d.bounds[1]) |-> resolve_type(d.bounds[1][i])]
    ELSE [i \in 1..Len(d.atom.args) |-> Type("Any")]

collect_signature(signatures, d) == Put(signatures, d.atom.sym, signature(d))

\* pass 1 of check: a later declaration of a predicate replaces an earlier one
RECURSIVE collect_signatures(_, _, _)
collect_signatures(signatures, decls, i) ==
    IF i > Len(decls) THEN signatures
    ELSE collect_signatures(collect_signature(signatures, decls[i]), decls, i + 1)

TypeMismatch == "Type mismatch"

ArityMismatch == "Arity mismatch"

TypeOk(t) == [ok |-> TRUE, t |-> t]

TypeErr(e) == [ok |-> FALSE, err |-> e]

unify(t1, t2) ==
    IF t1.t = "Any" THEN TypeOk(t2)
    ELSE IF t2.t = "Any" THEN TypeOk(t1)
    ELSE IF t1 = t2 THEN TypeOk(t1)
    ELSE TypeErr(TypeMismatch)

infer_type(term, var_types) ==
    IF term.k = "var" THEN GetOr(var_types, term.name, Type("Any"))
    ELSE IF term.k = "num" THEN Type("Number")
    ELSE IF term.k = "str" THEN Type("String")
    ELSE Type("Any")

\* the result of a step of the checker: [ok |-> TRUE, vt |-> var_types] or an error
ScopeOk(vt) == [ok |-> TRUE, vt |-> vt]

unify_arg(term, expected, var_types) ==
    IF term.k = "var"
    THEN IF term.name \in DOMAIN var_types
         THEN LET u == unify(var_types[term.name], expected)
              IN  IF u.ok THEN ScopeOk(Put(var_types, term.name, u.t)) ELSE u
         ELSE ScopeOk(Put(var_types, term.name, expected))
    ELSE LET u == unify(infer_type(term, var_types), expected)
         IN  IF u.ok THEN ScopeOk(var_types) ELSE u

RECURSIVE unify_args(_, _, _, _)
unify_args(args, sig, var_types, i) ==
    IF i > Len(args) THEN ScopeOk(var_types)
    ELSE LET r == unify_arg(args[i], sig[i], var_types)
         IN  IF r.ok THEN unify_args(args, sig, r.vt, i + 1) ELSE r

check_atom(signatures, atom, var_types) ==
    IF atom.sym \in DOMAIN signatures
    THEN IF Len(signatures[atom.sym]) # Len(atom.args) THEN TypeErr(ArityMismatch)
         ELSE unify_args(atom.args, signatures[atom.sym], var_types, 1)
    ELSE ScopeOk(var_types)

check_premise(signatures, premise, var_types) ==
    IF premise.k \in {"atom", "neg"} THEN check_atom(signatures, premise.atom, var_types)
    ELSE LET u == unify(infer_type(premise.l, var_types), infer_type(premise.r, var_types))
         IN  IF u.ok THEN ScopeOk(var_types) ELSE u

RECURSIVE check_premises(_, _, _, _)
check_premises(signatures, premises, var_types, i) ==
    IF i > Len(premises) THEN ScopeOk(var_types)
    ELSE LET r == check_premise(signatures, premises[i], var_types)
         IN  IF r.ok THEN check_premises(signatures, premises, r.vt, i + 1) ELSE r

check_rule(signatures, rule) ==
    LET r == check_premises(signatures, rule.premises, EmptyMap, 1)
    IN  IF r.ok THEN check_atom(signatures, rule.head, r.vt) ELSE r

\* pass 2 of check: the first error is returned
RECURSIVE check_rules(_, _, _)
check_rules(signatures, rules, i) ==
    IF i > Len(rules) THEN [ok |-> TRUE]
    ELSE LET r == check_rule(signatures, rules[i])
         IN  IF r.ok THEN check_rules(signatures, rules, i + 1) ELSE r

\* TypeChecker::new(&ir).check()
TypeChecker_check(insts) ==
    check_rules(collect_signatures(EmptyMap, insts.decls, 1), insts.rules, 1)

(***************************************************************************)
(* The type check specification: a unit is lowered and checked; if it is   *)
(* accepted, one declaration is added to it and the unit is checked again. *)
(***************************************************************************)
TypeClauses ==
    {Clause(Atom("h", <<X>>), <<PosAtom("p", <<X, Y>>), PosAtom("q", <<Y>>)>>, <<>>),
     Clause(Atom("h", <<X>>), <<PosAtom("p", <<W, W>>), PosAtom("q", <<X>>)>>, <<>>),
     Clause(Atom("h", <<X>>), <<PosAtom("p", <<X, X>>)>>, <<>>),
     Clause(Atom("h", <<X>>), <<PosAtom("q", <<X>>), Eq(X, Num(1))>>, <<>>),
     Clause(Atom("h", <<X>>), <<Eq(X, Str("a")), PosAtom("q", <<X>>)>>, <<>>),
     Clause(Atom("h", <<X>>), <<PosAtom("p", <<X, W>>), NegAtom("q", <<X>>)>>, <<>>),
     Clause(Atom("p", <<Num(1), Str("a")>>), <<>>, <<>>),
     Clause(Atom("q", <<Num(1)>>), <<>>, <<>>)}

Bound(names) == [i \in 1..Len(names) |-> NameConst(names[i])]

TypeDecls ==
    {Decl(Atom("p", <<X, Y>>), <<>>, None),
     Decl(Atom("p", <<X, Y>>), <<>>, Some(<<Bound(<<"/number", "/string">>)>>)),
     Decl(Atom("p", <<X, Y>>), <<>>, Some(<<Bound(<<"/number", "/number">>)>>)),
     Decl(Atom("p", <<X, Y>>), <<>>, Some(<<Bound(<<"/number">>)>>)),
     Decl(Atom("q", <<X>>), <<>>, Some(<<Bound(<<"/number">>)>>)),
     Decl(Atom("q", <<X>>), <<>>, Some(<<Bound(<<"/string">>), Bound(<<"/number">>)>>)),
     Decl(Atom("q", <<X>>), <<>>,
          Some(<<(<<ApplyFn("fn:List", <<NameConst("/number")>>)>>)>>)),
     Decl(Atom("q", <<X, Y>>), <<>>, None),
     Decl(Atom("h", <<X>>), <<>>, Some(<<Bound(<<"/number">>)>>))}

TypeUnits ==
    {Unit(decls, clauses) :
        decls \in {<<>>} \cup {<<d>> : d \in TypeDecls},
        clauses \in Arrangements(TypeClauses, MaxUnitClauses) \ {<<>>}}

TypeInit ==
    /\ unit \in TypeUnits
    /\ extended = NoUnit
    /\ checks = <<>>
    /\ prog = unit.clauses
    /\ ord = <<>>
    /\ rewritten = NoUnit
    /\ overflow = "wrap"
    /\ store = MemStore_new
    /\ strat = [ok |-> TRUE, strata |-> <<>>]
    /\ ir = [rules |-> <<>>, n |-> 0, names |-> <<>>]
    /\ plans = <<>>
    /\ pc = "source"
    /\ si = 0 /\ oi = 0 /\ changes = 0 /\ run = 1 /\ inserted = 0 /\ derived = {}
    /\ last = NoCall /\ nops = 0 /\ pending = {}

\* lower_unit and TypeChecker::check on the unit
Check ==
    /\ pc = "source"
    /\ checks' = <<TypeChecker_check(lower_unit_insts(unit))>>
    /\ pc' = "checked"
    /\ UNCHANGED <<store, prog, ord, strat, ir, plans, si, oi, changes, run, inserted,
                   derived, overflow, storeVars, unitVars, extended>>

\* one more declaration is written after the declarations of an accepted unit
AddDecl(d) ==
    /\ pc = "checked"
    /\ checks[1].ok
    /\ extended' = Unit(Append(unit.decls, d), unit.clauses)
    /\ pc' = "extended"
    /\ UNCHANGED <<store, prog, ord, strat, ir, plans, si, oi, changes, run, inserted,
                   derived, overflow, storeVars, unitVars, checks>>

\* lower_unit and TypeChecker::check on the extended unit
CheckExtended ==
    /\ pc = "extended"
    /\ checks' = Append(checks, TypeChecker_check(lower_unit_insts(extended)))
    /\ pc' = "rechecked"
    /\ UNCHANGED <<store, prog, ord, strat, ir, plans, si, oi, changes, run, inserted,
                   derived, overflow, storeVars, unitVars, extended>>

TypeNext == Check \/ (\E d \in TypeDecls : AddDecl(d)) \/ CheckExtended

TypeSpec == TypeInit /\ [][TypeNext]_vars

\* the declaration added to the unit
AddedDecl == lower_decl(extended.decls[Len(extended.decls)])

\* the variables of a clause other than the wildcard
NamedVars(clause) == RuleVars(clause)

ValueTypes == {Type("Number"), Type("String")}

\* the type of an argument when the variables of its clause have the types
\* sigma; a wildcard stands for a variable of its own and fits every type
TypeOf(term, sigma) ==
    IF term.k = "var" THEN (IF term.name = Wildcard THEN Type("Any") ELSE sigma[term.name])
    ELSE infer_type(term, EmptyMap)

Agree(t1, t2) == t1.t = "Any" \/ t2.t = "Any" \/ t1 = t2

\* the use `atom` of the predicate the declaration d declares has the declared
\* arity, and the types of its arguments agree with the declared types
UseAgrees(d, atom, sigma) ==
    /\ Len(atom.args) = Len(signature(d))
    /\ \A i \in 1..Len(atom.args) : Agree(TypeOf(atom.args[i], sigma), signature(d)[i])

ClauseAtoms(clause) ==
    {clause.head} \cup {clause.premises[i].atom :
                           i \in {j \in 1..Len(clause.premises) :
                                     clause.premises[j].k \in {"atom", "neg"}}}

\* sigma is a typing of the clause under the signatures sigs: every atom of a
\* declared predicate and every equality agrees with it
Typing(clause, sigma, sigs) ==
    /\ \A a \in ClauseAtoms(clause) :
          a.sym \in DOMAIN sigs =>
              /\ Len(a.args) = Len(sigs[a.sym])
              /\ \A i \in 1..Len(a.args) : Agree(TypeOf(a.args[i], sigma), sigs[a.sym][i])
    /\ \A i \in 1..Len(clause.premises) :
          clause.premises[i].k = "eq" =>
              Agree(TypeOf(clause.premises[i].l, sigma), TypeOf(clause.premises[i].r, sigma))

\* the declaration d is correct for the unit u: every clause has a typing of
\* its variables under which each use of the declared predicate agrees with d,
\* next to the other declarations of the unit and the equalities of the clause
CorrectFor(d, u) ==
    \A i \in 1..Len(u.clauses) :
        \E sigma \in [NamedVars(u.clauses[i]) -> ValueTypes] :
            /\ \A a \in ClauseAtoms(u.clauses[i]) :
                  a.sym = d.atom.sym => UseAgrees(d, a, sigma)
            /\ Typing(u.clauses[i], sigma,
                      collect_signature(
                          collect_signatures(EmptyMap, lower_unit_insts(u).decls, 1), d))

\* C21: a unit the type checker accepts is also accepted with one more
\* declaration that is correct for it (the declared arity and argument types
\* agree with every use of the declared predicate).
C21_CorrectDeclAccepted ==
    (pc = "rechecked" /\ CorrectFor(AddedDecl, unit)) => checks[2].ok

(***************************************************************************)
(* Claims about the strata and the dependency graph (stratification        *)
(* specification).                                                         *)
(***************************************************************************)
\* the dependencies between predicates that have rules
RuleDeps(clauses) ==
    {d \in AllDeps(clauses) : d[1] \in idb_preds(clauses) /\ d[2] \in idb_preds(clauses)}

MutuallyRecursive(a, b, clauses) ==
    /\ Reaches(a, b, RuleDeps(clauses), Len(StratPreds))
    /\ Reaches(b, a, RuleDeps(clauses), Len(StratPreds))

\* C22: in the strata of an accepted program, for every dependency p -> q
\* (positive or negative) between predicates with rules the stratum of q is not
\* after the stratum of p, and mutually recursive predicates share a stratum.
C22_DependencyOrder ==
    (pc = "stratified" /\ strat.ok) =>
        /\ \A d \in RuleDeps(prog) :
              pred_to_index(strat.strata, d[2]) <= pred_to_index(strat.strata, d[1])
        /\ \A a, b \in idb_preds(prog) :
              MutuallyRecursive(a, b, prog) =>
                  pred_to_index(strat.strata, a) = pred_to_index(strat.strata, b)

\* an accepted program with a recursive pair and a predicate that depends on it
\* from a later stratum
C22_Witness ==
    /\ pc = "stratified" /\ strat.ok
    /\ \E a, b, c \in idb_preds(prog) :
          /\ a # b /\ MutuallyRecursive(a, b, prog)
          /\ <<c, a>> \in RuleDeps(prog)
          /\ pred_to_index(strat.strata, a) = pred_to_index(strat.strata, b)
          /\ pred_to_index(strat.strata, a) < pred_to_index(strat.strata, c)

DepGraph == make_dep_graph(Program(prog), ord)

\* the graph has the edge a -> b with the label negated
HasEdge(dep, a, b, negated) ==
    a \in DOMAIN dep /\ b \in DOMAIN dep[a] /\ dep[a][b] = negated

\* the calls add_edge(head, q, negated) that the premises of the clauses over
\* predicates with rules give rise to: <<head, q, negated>>
Contributions(clauses) ==
    {<<clauses[i].head.sym, clauses[i].premises[j].atom.sym,
       clauses[i].premises[j].k = "neg" \/ DoTransformClause(clauses[i])>> :
        <<i, j>> \in {x \in (1..Len(clauses)) \X (1..1) :
                        /\ x[2] <= Len(clauses[x[1]].premises)
                        /\ clauses[x[1]].premises[x[2]].atom.sym \in idb_preds(clauses)}}

\* C24: the dependency graph has the edge p -> q iff some premise contributes
\* it, and the edge is negative iff at least one contribution is negative, in
\* whatever order the clauses and predicates are processed: a positive
\* contribution after a negative one leaves the edge negative.
C24_NegativeEdgeKept ==
    pc = "stratified" =>
        LET dep == DepGraph
            added == Contributions(prog)
        IN  \A p, q \in idb_preds(prog) :
                /\ HasEdge(dep, p, q, TRUE) <=> <<p, q, TRUE>> \in added
                /\ HasEdge(dep, p, q, FALSE) <=>
                       (<<p, q, FALSE>> \in added /\ <<p, q, TRUE>> \notin added)

\* a negated premise in an earlier clause and the same premise positive in a
\* later clause of the same predicate: the edge is negative
C24_Witness ==
    /\ pc = "stratified"
    /\ \E i, j \in 1..Len(prog) :
          /\ i < j
          /\ prog[i].head = prog[j].head
          /\ prog[i].premises # <<>> /\ prog[j].premises # <<>>
          /\ prog[i].premises[1].k = "neg" /\ prog[j].premises[1].k = "atom"
          /\ prog[j].transform = <<>>
          /\ prog[i].premises[1].atom = prog[j].premises[1].atom
          /\ HasEdge(DepGraph, prog[i].head.sym, prog[i].premises[1].atom.sym, TRUE)

\* C25: for a clause with a `do` transform at any position of its transform
\* list, the edge from its head to the intensional predicate of each of its
\* positive premises is negative.
C25_DoMakesEdgesNegative ==
    pc = "stratified" =>
        \A i \in 1..Len(prog) :
            \A j \in 1..Len(prog[i].premises) :
                (/\ HasDo(prog[i])
                 /\ prog[i].premises[j].k = "atom"
                 /\ prog[i].premises[j].atom.sym \in idb_preds(prog))
                    => HasEdge(DepGraph, prog[i].head.sym, prog[i].premises[j].atom.sym, TRUE)

(***************************************************************************)
(* Claims about single premises of a planned rule (round-trip              *)
(* specification).                                                         *)
(***************************************************************************)
TheRule == prog[1]

AtomPremises(rule) == {i \in 1..Len(rule.premises) : rule.premises[i].k = "atom"}

\* the variables the atoms before premise i bind
BoundBefore(rule, i) ==
    UNION {{rule.premises[j].atom.args[k].name :
               k \in {c \in 1..Len(rule.premises[j].atom.args) :
                        /\ rule.premises[j].atom.args[c].k = "var"
                        /\ rule.premises[j].atom.args[c] # W}} :
              j \in {x \in AtomPremises(rule) : x < i}}

\* the columns of premise i whose argument is a constant or a bound variable
KeyedColumns(rule, i) ==
    {k \in 1..Len(rule.premises[i].atom.args) :
        \/ rule.premises[i].atom.args[k].k = "num"
        \/ /\ rule.premises[i].atom.args[k].k = "var"
           /\ rule.premises[i].atom.args[k].name \in BoundBefore(rule, i)}

\* the pairs of columns of premise i that hold the same variable, bound by no
\* earlier premise
RepeatedColumns(rule, i) ==
    {c \in (1..Len(rule.premises[i].atom.args)) \X (1..Len(rule.premises[i].atom.args)) :
        /\ c[1] < c[2]
        /\ rule.premises[i].atom.args[c[1]] = rule.premises[i].atom.args[c[2]]
        /\ rule.premises[i].atom.args[c[1]].k = "var"
        /\ rule.premises[i].atom.args[c[1]] # W
        /\ rule.premises[i].atom.args[c[1]].name \notin BoundBefore(rule, i)}

WildcardPremisesOf(rule) ==
    {i \in AtomPremises(rule) : W \in SeqToSet(rule.premises[i].atom.args)}

\* the data sources of the Iterate operations of a plan
RECURSIVE IterateSources(_)
IterateSources(op) ==
    IF op.op = "Iterate" THEN {op.source} \cup IterateSources(op.body)
    ELSE IF op.op \in {"Filter", "Let"} THEN IterateSources(op.body)
    ELSE {}

\* C26: for a rule with a premise that has two or more arguments that are
\* constants or bound variables (no wildcards, no variable repeated in an atom
\* that binds it), the plan accepts the stored tuples iff every such column
\* equals the value of its argument, and no two columns of a scan share a
\* scratch variable.
C26_KeyedColumnsCompared ==
    (/\ pc = "returned"
     /\ WildcardPremisesOf(TheRule) = {}
     /\ \A i \in AtomPremises(TheRule) : RepeatedColumns(TheRule, i) = {}
     /\ \E i \in AtomPremises(TheRule) : Cardinality(KeyedColumns(TheRule, i)) >= 2)
        => /\ FactsOf(AllFacts(store), "h") = DirectSubstitution
           /\ \A src \in IterateSources(plans[1].ops[1]) :
                 \A j, k \in 1..Len(src.vars) :
                     (j # k /\ src.vars[j] = src.vars[k]) => src.vars[j] \in RuleVars(TheRule)

\* C27: for a rule with wildcards in two premises, the plan derives the head
\* from the stored tuples whatever the columns under the wildcards hold: the
\* wildcards of different premises do not constrain each other.
C27_WildcardsIndependent ==
    (pc = "returned" /\ Cardinality(WildcardPremisesOf(TheRule)) >= 2)
        => FactsOf(AllFacts(store), "h") = DirectSubstitution

\* C28: for a rule with a premise that repeats a variable no earlier premise
\* binds, the plan derives nothing when the repeated columns of the tuple
\* stored for that premise differ.
C28_RepeatedVariableEqual ==
    (/\ pc = "returned"
     /\ \E i \in AtomPremises(TheRule) :
           \E c \in RepeatedColumns(TheRule, i) :
               \A f \in FactsOf(AllFacts(store), TheRule.premises[i].atom.sym) :
                   f[2][c[1]] # f[2][c[2]])
        => FactsOf(AllFacts(store), "h") = {}

\* C29: after any sequence of add_fact, insert and merge_deltas calls, neither
\* scan nor get_facts of a relation returns a tuple twice.
C29_ScanWithoutRepetition ==
    \A r \in StoreRels, t \in StoreTuples :
        /\ Occurrences(scan(store, r), t) <= 1
        /\ Occurrences(get_facts(store, r), t) <= 1

\* the relations the store knows in any bucket
Relations(st) == (DOMAIN st.stable) \cup (DOMAIN st.delta) \cup (DOMAIN st.next_delta)

\* C30: when execute has returned Ok, the next-delta bucket of every relation
\* is empty, and every fact derived during the run is among the tuples that
\* scan and get_facts return for its relation.
C30_DerivedFactsVisibleAtReturn ==
    pc = "returned" =>
        /\ \A r \in Relations(store) : scan_next_delta(store, r) = <<>>
        /\ \A f \in derived :
              /\ f[2] \in SeqToSet(scan(store, f[1]))
              /\ f[2] \in SeqToSet(get_facts(store, f[1]))

\* execute has returned with derived facts of which one was merged into stable
\* and another is still in delta
C30_Witness ==
    /\ pc = "returned"
    /\ \E f, g \in derived :
          /\ f[2] \in SeqToSet(GetOr(store.stable, f[1], <<>>))
          /\ g[2] \in SeqToSet(scan_delta(store, g[1]))
          /\ g[2] \notin SeqToSet(GetOr(store.stable, g[1], <<>>))
====
